---- MODULE Spec2Model ----
(***************************************************************************)
(* Model of the DEX fee comparison front end (Hyperliquid vs Ostium):      *)
(* the fee resolvers of js/app.js, the fee tables of js/config.js and the  *)
(* arbitrage calculator of js/arbitrage.js.                                *)
(*                                                                         *)
(* JavaScript numbers are modelled as exact rationals extended with the    *)
(* IEEE-754 special values NaN, +Infinity and -Infinity, and with the      *)
(* value undefined.  Rounding of binary floating point is not modelled;    *)
(* zero carries no sign (every zero divisor is +0).                        *)
(***************************************************************************)
EXTENDS Integers, Sequences, FiniteSets, TLC

VARIABLE CURRENT_TIER       \* app.js: let CURRENT_TIER
VARIABLE REFERRAL_DISCOUNT  \* config.js: const REFERRAL_DISCOUNT (user-editable, 0-100)
VARIABLE positionSize       \* ARBITRAGE_CONFIG.positionSize
VARIABLE maxFundingHours    \* ARBITRAGE_CONFIG.maxFundingHours
VARIABLE hlContract         \* one Hyperliquid instrument record
VARIABLE osContract         \* one Ostium instrument record
VARIABLE hlFee              \* last value returned by getHLFeeRate
VARIABLE osFee              \* last value returned by getOSFeeRate
VARIABLE arb                \* last value returned by calculateArbitrage; each plan also
                            \* carries, under 'locals', the local variables of its computation

VARIABLE directionText      \* renderComparisonCard: the direction label of the card
VARIABLE GLOBAL_HL_DATA     \* app.js: let GLOBAL_HL_DATA
VARIABLE GLOBAL_OS_DATA     \* app.js: let GLOBAL_OS_DATA
VARIABLE GLOBAL_COMMON_PAIRS \* app.js: let GLOBAL_COMMON_PAIRS
VARIABLE hlList             \* DOM element hlList: one rendered card per instrument
VARIABLE osList             \* DOM element osList
VARIABLE commonList         \* DOM element commonList: one rendered card per pair
VARIABLE hlFile             \* what the server answers for hyperliquid_filtered.json
VARIABLE osFile             \* what the server answers for ostium_filtered.json
VARIABLE loadDataResult     \* value the last loadData call returned
VARIABLE isPolling          \* http-client.js: let isPolling
VARIABLE passes             \* fetchAllData calls suspended at an await, oldest first
VARIABLE GLOBAL_COMMON_PAIRS_DATA \* http-client.js: let GLOBAL_COMMON_PAIRS_DATA
VARIABLE statusEl           \* DOM element ws-status: the status it shows
VARIABLE pollTimer          \* TRUE once setInterval(fetchAllData, pollInterval) has run
VARIABLE loads              \* loadData calls suspended at an await, oldest first, each
                            \* with what its two requests are answered
VARIABLE newestLoad         \* what the requests of the most recently started loadData
                            \* are answered
VARIABLE intervals          \* number of running setInterval(loadData, ...) timers
VARIABLE DATA_MODE          \* part_001: let DATA_MODE
VARIABLE pollingInterval    \* part_001: let pollingInterval; TRUE when it holds a timer
VARIABLE probes             \* number of testSockets of tryWebSocket awaiting an outcome
VARIABLE wsLoaded           \* typeof initWebSocket === 'function'
VARIABLE started            \* DOMContentLoaded has fired
VARIABLE sockets            \* the sockets created by initWebSocket, in order: their states
VARIABLE socket             \* websocket-client.js: let socket; index in sockets, 0 for null
VARIABLE isConnected        \* websocket-client.js: let isConnected
VARIABLE heartbeats         \* number of running heartbeat timers of startHeartbeat
VARIABLE tierSelect         \* DOM element tierSelect: the value of the selected option
VARIABLE emitted            \* tiers sent with socket.emit('set_vip_tier'), in order

configVars == <<CURRENT_TIER, REFERRAL_DISCOUNT, positionSize, maxFundingHours>>

cardVars == <<hlContract, osContract, hlFee, osFee, arb, directionText>>

dataVars == <<GLOBAL_HL_DATA, GLOBAL_OS_DATA, GLOBAL_COMMON_PAIRS>>

domVars == <<hlList, osList, commonList>>

loadVars == <<hlFile, osFile, loadDataResult>>

pollVars == <<isPolling, passes, GLOBAL_COMMON_PAIRS_DATA, statusEl, pollTimer>>

pageVars == <<dataVars, domVars, loadVars, pollVars>>

asyncVars == <<loads, newestLoad, intervals>>

modeVars == <<DATA_MODE, pollingInterval, probes, wsLoaded, started>>

socketVars == <<sockets, socket, isConnected, heartbeats>>

vipVars == <<tierSelect, emitted>>

appVars == <<asyncVars, modeVars, socketVars, vipVars>>

vars == <<configVars, cardVars, pageVars, appVars>>

-----------------------------------------------------------------------------
(* JavaScript numbers *)

RECURSIVE GCD(_, _)
GCD(a, b) == IF b = 0 THEN a ELSE GCD(b, a % b)

AbsInt(n) == IF n < 0 THEN -n ELSE n

SignInt(n) == IF n < 0 THEN -1 ELSE IF n = 0 THEN 0 ELSE 1

\* the finite number n/d (d > 0), in lowest terms
R(n, d) ==
  LET g == GCD(AbsInt(n), d)
  IN  [k |-> "fin", n |-> SignInt(n) * (AbsInt(n) \div g), d |-> d \div g]

N(n) == R(n, 1)

NaN == [k |-> "nan", n |-> 0, d |-> 1]

Infinity == [k |-> "inf", n |-> 1, d |-> 1]

NegInfinity == [k |-> "inf", n |-> -1, d |-> 1]

Undefined == [k |-> "undef", n |-> 0, d |-> 1]

Null == [k |-> "null", n |-> 0, d |-> 1]

\* ToNumber: undefined converts to NaN, null to 0
ToNumber(x) ==
  IF x = Undefined THEN NaN
  ELSE IF x = Null THEN [k |-> "fin", n |-> 0, d |-> 1]
  ELSE x

IsNaN(x) == x.k = "nan"

IsFinite(x) == x.k = "fin"

IsZero(x) == x.k = "fin" /\ x.n = 0

\* sign of a number that is not NaN; a zero counts as +0
Sgn(x) == IF x.n < 0 THEN -1 ELSE 1

Inf(s) == IF s < 0 THEN NegInfinity ELSE Infinity

Neg(x0) ==
  LET x == ToNumber(x0)
  IN  IF IsNaN(x) THEN NaN
      ELSE IF x.k = "inf" THEN Inf(-x.n)
      ELSE R(-x.n, x.d)

Add(a0, b0) ==
  LET a == ToNumber(a0)
      b == ToNumber(b0)
  IN  IF IsNaN(a) \/ IsNaN(b) THEN NaN
      ELSE IF a.k = "inf" /\ b.k = "inf" THEN (IF a.n = b.n THEN a ELSE NaN)
      ELSE IF a.k = "inf" THEN a
      ELSE IF b.k = "inf" THEN b
      ELSE LET g == GCD(a.d, b.d)
           IN  R(a.n * (b.d \div g) + b.n * (a.d \div g), (a.d \div g) * b.d)

Sub(a, b) == Add(a, Neg(b))

Mul(a0, b0) ==
  LET a == ToNumber(a0)
      b == ToNumber(b0)
  IN  IF IsNaN(a) \/ IsNaN(b) THEN NaN
      ELSE IF a.k = "inf" \/ b.k = "inf"
        THEN (IF IsZero(a) \/ IsZero(b) THEN NaN ELSE Inf(Sgn(a) * Sgn(b)))
      ELSE LET g1 == GCD(AbsInt(a.n), b.d)
               g2 == GCD(AbsInt(b.n), a.d)
           IN  R((a.n \div g1) * (b.n \div g2), (a.d \div g2) * (b.d \div g1))

Div(a0, b0) ==
  LET a == ToNumber(a0)
      b == ToNumber(b0)
  IN  IF IsNaN(a) \/ IsNaN(b) THEN NaN
      ELSE IF a.k = "inf" THEN (IF b.k = "inf" THEN NaN ELSE Inf(Sgn(a) * Sgn(b)))
      ELSE IF b.k = "inf" THEN N(0)
      ELSE IF IsZero(b) THEN (IF IsZero(a) THEN NaN ELSE Inf(Sgn(a)))
      ELSE LET g1 == GCD(AbsInt(a.n), AbsInt(b.n))
               g2 == GCD(b.d, a.d)
           IN  R((a.n \div g1) * (b.d \div g2) * SignInt(b.n),
                 (a.d \div g2) * (AbsInt(b.n) \div g1))

\* an/ad < bn/bd for ad, bd > 0, by comparing the integer parts and then the
\* reciprocals of the fractional parts
RECURSIVE FracLess(_, _, _, _)
FracLess(an, ad, bn, bd) ==
  LET qa == an \div ad
      qb == bn \div bd
      ra == an % ad
      rb == bn % bd
  IN  IF qa # qb THEN qa < qb
      ELSE IF rb = 0 THEN FALSE
      ELSE IF ra = 0 THEN TRUE
      ELSE FracLess(bd, rb, ad, ra)

\* a < b on numbers that are not NaN
LessNum(a, b) ==
  IF a.k = "inf" THEN a.n < 0 /\ ~(b.k = "inf" /\ b.n < 0)
  ELSE IF b.k = "inf" THEN b.n > 0
  ELSE FracLess(a.n, a.d, b.n, b.d)

\* the relational operators: every comparison with NaN is false
Lt(a0, b0) ==
  LET a == ToNumber(a0)
      b == ToNumber(b0)
  IN  ~IsNaN(a) /\ ~IsNaN(b) /\ LessNum(a, b)

Gt(a, b) == Lt(b, a)

Le(a0, b0) ==
  LET a == ToNumber(a0)
      b == ToNumber(b0)
  IN  ~IsNaN(a) /\ ~IsNaN(b) /\ ~LessNum(b, a)

Ge(a, b) == Le(b, a)

MathAbs(x0) ==
  LET x == ToNumber(x0)
  IN  IF IsNaN(x) THEN NaN
      ELSE IF x.k = "inf" THEN Infinity
      ELSE R(AbsInt(x.n), x.d)

MathMax(a0, b0) ==
  LET a == ToNumber(a0)
      b == ToNumber(b0)
  IN  IF IsNaN(a) \/ IsNaN(b) THEN NaN
      ELSE IF LessNum(a, b) THEN b ELSE a

\* truthiness of a number or of undefined/null
Truthy(x) == ~(x = Undefined \/ x = Null \/ IsNaN(x) \/ IsZero(x))

\* a || b
OrElse(a, b) == IF Truthy(a) THEN a ELSE b

\* obj?.field
OptGet(obj, field) == IF obj = Undefined \/ obj = Null THEN Undefined ELSE obj[field]

-----------------------------------------------------------------------------
(* Names are character sequences *)

BTC == <<"B", "T", "C">>

GOLD == <<"G", "O", "L", "D">>

SILVER == <<"S", "I", "L", "V", "E", "R">>

XYZ_GOLD == <<"x", "y", "z", ":", "G", "O", "L", "D">>

\* String.prototype.includes
Includes(s, sub) ==
  \E i \in 1..(Len(s) - Len(sub) + 1) : SubSeq(s, i, i + Len(sub) - 1) = sub

\* a string field that is absent (undefined)
UndefinedStr == <<"undefined">>

\* a || b on strings: undefined and '' are falsy
StrOr(a, b) == IF a = UndefinedStr \/ a = <<>> THEN b ELSE a

UpperChars ==
  <<"A", "B", "C", "D", "E", "F", "G", "H", "I", "J", "K", "L", "M",
    "N", "O", "P", "Q", "R", "S", "T", "U", "V", "W", "X", "Y", "Z">>

LowerChars ==
  <<"a", "b", "c", "d", "e", "f", "g", "h", "i", "j", "k", "l", "m",
    "n", "o", "p", "q", "r", "s", "t", "u", "v", "w", "x", "y", "z">>

\* String.prototype.toLowerCase
toLowerCase(s) ==
  [i \in 1..Len(s) |->
     IF \E j \in 1..26 : UpperChars[j] = s[i]
       THEN LowerChars[CHOOSE j \in 1..26 : UpperChars[j] = s[i]]
       ELSE s[i]]

-----------------------------------------------------------------------------
(* config.js *)

DefaultReferralDiscount == 4

MaxDiscount == 100

MaxTier == 6

perps_base == <<"p", "e", "r", "p", "s", "_", "b", "a", "s", "e">>

hip3_growth == <<"h", "i", "p", "3", "_", "g", "r", "o", "w", "t", "h">>

hip3_standard == <<"h", "i", "p", "3", "_", "s", "t", "a", "n", "d", "a", "r", "d">>

\* rates in percent; tier -> {t, m}
FEE_SCHEDULE(table) ==
  IF table = perps_base THEN
    [tier \in 0..MaxTier |->
      CASE tier = 0 -> [t |-> R(45, 1000), m |-> R(15, 1000)]
        [] tier = 1 -> [t |-> R(40, 1000), m |-> R(12, 1000)]
        [] tier = 2 -> [t |-> R(35, 1000), m |-> R(8, 1000)]
        [] tier = 3 -> [t |-> R(30, 1000), m |-> R(4, 1000)]
        [] tier = 4 -> [t |-> R(28, 1000), m |-> N(0)]
        [] tier = 5 -> [t |-> R(26, 1000), m |-> N(0)]
        [] tier = 6 -> [t |-> R(24, 1000), m |-> N(0)]]
  ELSE IF table = hip3_growth THEN
    [tier \in 0..MaxTier |->
      CASE tier = 0 -> [t |-> R(90, 10000), m |-> R(30, 10000)]
        [] tier = 1 -> [t |-> R(80, 10000), m |-> R(24, 10000)]
        [] tier = 2 -> [t |-> R(70, 10000), m |-> R(16, 10000)]
        [] tier = 3 -> [t |-> R(60, 10000), m |-> R(8, 10000)]
        [] tier = 4 -> [t |-> R(56, 10000), m |-> N(0)]
        [] tier = 5 -> [t |-> R(52, 10000), m |-> N(0)]
        [] tier = 6 -> [t |-> R(48, 10000), m |-> N(0)]]
  ELSE
    [tier \in 0..MaxTier |->
      CASE tier = 0 -> [t |-> R(90, 1000), m |-> R(30, 1000)]
        [] tier = 1 -> [t |-> R(80, 1000), m |-> R(24, 1000)]
        [] tier = 2 -> [t |-> R(70, 1000), m |-> R(16, 1000)]
        [] tier = 3 -> [t |-> R(60, 1000), m |-> R(8, 1000)]
        [] tier = 4 -> [t |-> R(56, 1000), m |-> N(0)]
        [] tier = 5 -> [t |-> R(52, 1000), m |-> N(0)]
        [] tier = 6 -> [t |-> R(48, 1000), m |-> N(0)]]

\* OSTIUM_FEE_SCHEDULE.traditional: key -> rate in percent
OSTIUM_TRADITIONAL ==
  << <<<<"f", "o", "r", "e", "x">>, R(3, 100)>>,
     <<<<"i", "n", "d", "i", "c", "e", "s">>, R(5, 100)>>,
     <<<<"s", "t", "o", "c", "k", "s">>, R(5, 100)>>,
     <<<<"X", "A", "U">>, R(3, 100)>>,
     <<<<"X", "A", "G">>, R(15, 100)>>,
     <<<<"X", "P", "T">>, R(20, 100)>>,
     <<<<"X", "P", "D">>, R(20, 100)>>,
     <<<<"C", "L">>, R(10, 100)>> >>

\* OSTIUM_FEE_SCHEDULE.traditional[key], undefined for an absent key
traditional(key) ==
  IF \E i \in 1..Len(OSTIUM_TRADITIONAL) : OSTIUM_TRADITIONAL[i][1] = key
    THEN OSTIUM_TRADITIONAL[CHOOSE i \in 1..Len(OSTIUM_TRADITIONAL) :
                              OSTIUM_TRADITIONAL[i][1] = key][2]
    ELSE Undefined

\* OSTIUM_FEE_SCHEDULE.crypto
OSTIUM_CRYPTO == [maker |-> R(3, 100), taker |-> R(10, 100)]

\* OSTIUM_FEE_SCHEDULE.other.oracleFee, in USD
OSTIUM_ORACLE_FEE == R(10, 100)

-----------------------------------------------------------------------------
(* app.js: fee resolution *)

\* the value of an expression that throws a TypeError
TypeError == [k |-> "TypeError", n |-> 0, d |-> 1]

\* the tier lookup in a table that lacks the highest tier
baseFeeOf_noTopTier(table, tier) ==
  IF tier \in 0..(MaxTier - 1) THEN FEE_SCHEDULE(table)[tier] ELSE Undefined

\* the tier lookup with the tiers in reverse order
baseFeeOf_reversed(table, tier) ==
  IF tier \in 0..MaxTier THEN FEE_SCHEDULE(table)[MaxTier - tier] ELSE Undefined

\* FEE_SCHEDULE.<table>[tier]
baseFeeOf(table, tier) ==
  IF tier \in 0..MaxTier THEN FEE_SCHEDULE(table)[tier] ELSE Undefined

\* the fee table getHLFeeRate selects for a contract
hlFeeTable(contract) ==
  LET name == contract.coin
      dex  == StrOr(contract.dex, <<"m", "a", "i", "n">>)
  IN  IF dex = <<"x", "y", "z">>
        THEN IF name = GOLD \/ Includes(name, GOLD)
               THEN hip3_standard
               ELSE hip3_growth
        ELSE perps_base

\* 1 - (REFERRAL_DISCOUNT / 100)
discountMultiplier == Sub(N(1), Div(N(REFERRAL_DISCOUNT), N(100)))

\* getHLFeeRate with the discount applied to the taker rate only
getHLFeeRate_makerUndiscounted(contract) ==
  LET tier    == CURRENT_TIER
      baseFee == baseFeeOf(hlFeeTable(contract), tier)
  IN  IF baseFee = Undefined THEN TypeError
      ELSE [t |-> Mul(baseFee.t, discountMultiplier),
            m |-> baseFee.m]

\* the body of getHLFeeRate for the value tier that it reads from CURRENT_TIER
getHLFeeRateAt(contract, tier) ==
  LET baseFee == baseFeeOf(hlFeeTable(contract), tier)
  IN  IF baseFee = Undefined THEN TypeError
      ELSE [t |-> Mul(baseFee.t, discountMultiplier),
            m |-> Mul(baseFee.m, discountMultiplier)]

getHLFeeRate(contract) == getHLFeeRateAt(contract, CURRENT_TIER)

StrLit_fx == <<"f", "x">>

\* getOSFeeRate with the crypto group tested before the asset override
getOSFeeRate_cryptoFirst(contract) ==
  LET from  == StrOr(contract.from, <<>>)
      group == toLowerCase(StrOr(contract.group, <<>>))
  IN  IF group = <<"c", "r", "y", "p", "t", "o">>
        THEN [t |-> OSTIUM_CRYPTO.taker, m |-> OSTIUM_CRYPTO.maker]
      ELSE IF Truthy(traditional(from)) THEN traditional(from)
      ELSE R(6, 100)

getOSFeeRate(contract) ==
  LET from  == StrOr(contract.from, <<>>)
      group == toLowerCase(StrOr(contract.group, <<>>))
  IN  IF Truthy(traditional(from)) THEN traditional(from)
      ELSE IF group = <<"f", "o", "r", "e", "x">> \/ Includes(group, StrLit_fx)
        THEN traditional(<<"f", "o", "r", "e", "x">>)
      ELSE IF group = <<"i", "n", "d", "i", "c", "e", "s">>
              \/ group = <<"i", "n", "d", "e", "x">>
        THEN traditional(<<"i", "n", "d", "i", "c", "e", "s">>)
      ELSE IF group = <<"s", "t", "o", "c", "k", "s">>
              \/ group = <<"s", "t", "o", "c", "k">>
              \/ group = <<"e", "q", "u", "i", "t", "i", "e", "s">>
        THEN traditional(<<"s", "t", "o", "c", "k", "s">>)
      ELSE IF group = <<"c", "o", "m", "m", "o", "d", "i", "t", "i", "e", "s">>
              \/ group = <<"c", "o", "m", "m", "o", "d", "i", "t", "y">>
        THEN R(5, 100)
      ELSE IF group = <<"c", "r", "y", "p", "t", "o">>
              \/ group = <<"c", "r", "y", "p", "t", "o", "c", "u", "r", "r", "e", "n", "c", "y">>
        THEN [t |-> OSTIUM_CRYPTO.taker, m |-> OSTIUM_CRYPTO.maker]
      ELSE R(6, 100)

-----------------------------------------------------------------------------
(* arbitrage.js *)

maker == "maker"

taker == "taker"

\* takerFill with the comparison of the mids made non-strict
takerFill_ge(hl, os) ==
  IF Ge(hl.mid, os.mid)
    THEN [hlPrice |-> hl.bid, osPrice |-> os.ask, spread |-> Sub(hl.bid, os.ask)]
    ELSE [hlPrice |-> hl.ask, osPrice |-> os.bid, spread |-> Sub(os.bid, hl.ask)]

\* takerFill selling at the ask and buying at the bid
takerFill_crossed(hl, os) ==
  IF Gt(hl.mid, os.mid)
    THEN [hlPrice |-> hl.ask, osPrice |-> os.bid, spread |-> Sub(hl.ask, os.bid)]
    ELSE [hlPrice |-> hl.bid, osPrice |-> os.ask, spread |-> Sub(os.ask, hl.bid)]

\* taker legs: the fill price on each venue and the raw spread
takerFill(hl, os) ==
  IF Gt(hl.mid, os.mid)
    THEN [hlPrice |-> hl.bid, osPrice |-> os.ask, spread |-> Sub(hl.bid, os.ask)]
    ELSE [hlPrice |-> hl.ask, osPrice |-> os.bid, spread |-> Sub(os.bid, hl.ask)]

\* clampSpread without the clamp
clampSpread_none(spread) == spread

\* Math.max(0, currentSpreadUSD)
clampSpread(spread) == MathMax(N(0), spread)

\* currentSpreadUSD of one plan
currentSpreadOf(orderType, hl, os) ==
  IF orderType = taker
    THEN clampSpread(takerFill(hl, os).spread)
    ELSE MathAbs(Sub(hl.mid, os.mid))

\* avgPriceOf taking the Ostium mid as reference price for both plans
avgPriceOf_osMid(orderType, hl, os) == os.mid

\* avgPrice: the reference price of one plan
avgPriceOf(orderType, hl, os) ==
  IF orderType = taker
    THEN Div(Add(takerFill(hl, os).hlPrice, takerFill(hl, os).osPrice), N(2))
    ELSE Div(Add(hl.mid, os.mid), N(2))

\* breakEvenSpreadUSD = totalCost * avgPrice / size
breakEvenSpreadOf(totalCost, avgPrice, size) == Div(Mul(totalCost, avgPrice), size)

\* hlContract.fundingRate?.rateHourly || 0
hlFundingOf(hl) == OrElse(OptGet(hl.fundingRate, "rateHourly"), N(0))

\* osContract.fundingRate?.longPayHourly || osContract.rolloverRate?.hourly || 0
osFundingOf(os) ==
  OrElse(OrElse(OptGet(os.fundingRate, "longPayHourly"),
                OptGet(os.rolloverRate, "hourly")),
         N(0))

\* fundingHoursOf with the quotient inverted
fundingHoursOf_inverted(totalCost, fundingPerHour) ==
  IF Gt(fundingPerHour, N(0)) THEN Div(fundingPerHour, totalCost) ELSE Infinity

\* fundingPerHour > 0 ? totalCost / fundingPerHour : Infinity
fundingHoursOf(totalCost, fundingPerHour) ==
  IF Gt(fundingPerHour, N(0)) THEN Div(totalCost, fundingPerHour) ELSE Infinity

\* fundingValidOf with || in place of &&
fundingValidOf_or(fundingHours, maxHours) ==
  Le(fundingHours, maxHours) \/ Gt(fundingHours, N(0))

\* fundingHours <= maxHours && fundingHours > 0
fundingValidOf(fundingHours, maxHours) ==
  Le(fundingHours, maxHours) /\ Gt(fundingHours, N(0))

\* comboHoursOf without the zero branch
comboHoursOf_noZero(remainingCost, fundingPerHour) ==
  IF Gt(remainingCost, N(0)) /\ Gt(fundingPerHour, N(0))
    THEN Div(remainingCost, fundingPerHour)
    ELSE Infinity

\* combined break-even time
comboHoursOf(remainingCost, fundingPerHour) ==
  IF Gt(remainingCost, N(0)) /\ Gt(fundingPerHour, N(0))
    THEN Div(remainingCost, fundingPerHour)
    ELSE IF Le(remainingCost, N(0)) THEN N(0) ELSE Infinity

\* spreadCanProfitOf asking for any spread at all
spreadCanProfitOf_positive(currentSpreadUSD, breakEvenSpreadUSD) ==
  Gt(currentSpreadUSD, N(0))

\* currentSpreadUSD >= breakEvenSpreadUSD
spreadCanProfitOf(currentSpreadUSD, breakEvenSpreadUSD) ==
  Ge(currentSpreadUSD, breakEvenSpreadUSD)

\* valid ? hours : null
reportHours(valid, hours) == IF valid THEN hours ELSE Null

\* calculateSingleArbitrage: the returned object, and under 'locals' the local
\* variables that are not returned
calculateSingleArbitrage(hlCost, osCost, size, maxHours, hl, os, orderType) ==
  LET totalCost          == Add(hlCost, osCost)
      currentSpreadUSD   == currentSpreadOf(orderType, hl, os)
      avgPrice           == avgPriceOf(orderType, hl, os)
      breakEvenSpreadUSD == breakEvenSpreadOf(totalCost, avgPrice, size)
      hlFunding          == hlFundingOf(hl)
      osFunding          == osFundingOf(os)
      fundingDiff        == MathAbs(Sub(hlFunding, osFunding))
      fundingPerHour     == Mul(size, Div(fundingDiff, N(100)))
      fundingHours       == fundingHoursOf(totalCost, fundingPerHour)
      fundingValid       == fundingValidOf(fundingHours, maxHours)
      spreadProfit       == Div(Mul(currentSpreadUSD, size), avgPrice)
      remainingCost      == Sub(totalCost, spreadProfit)
      comboHours         == comboHoursOf(remainingCost, fundingPerHour)
      comboValid         == Le(comboHours, maxHours)
      spreadCanProfit    == spreadCanProfitOf(currentSpreadUSD, breakEvenSpreadUSD)
      anyCanProfit       == spreadCanProfit \/ fundingValid \/ comboValid
  IN  [totalCost |-> totalCost,
       breakEvenSpreadUSD |-> breakEvenSpreadUSD,
       currentSpreadUSD |-> currentSpreadUSD,
       spreadCanProfit |-> spreadCanProfit,
       fundingDiff |-> fundingDiff,
       fundingHours |-> reportHours(fundingValid, fundingHours),
       fundingValid |-> fundingValid,
       comboHours |-> reportHours(comboValid, comboHours),
       comboValid |-> comboValid,
       anyCanProfit |-> anyCanProfit,
       locals |-> [hlCost |-> hlCost,
                   osCost |-> osCost,
                   hlPrice |-> IF orderType = taker THEN takerFill(hl, os).hlPrice ELSE Undefined,
                   osPrice |-> IF orderType = taker THEN takerFill(hl, os).osPrice ELSE Undefined,
                   avgPrice |-> avgPrice,
                   hlFunding |-> hlFunding,
                   osFunding |-> osFunding,
                   fundingPerHour |-> fundingPerHour,
                   fundingHours |-> fundingHours,
                   spreadProfit |-> spreadProfit,
                   remainingCost |-> remainingCost,
                   comboHours |-> comboHours]]

\* typeof osFee === 'object'
IsFeeObject(fee) == "t" \in DOMAIN fee

\* osOpenFeeRate using the maker rate for both plans
osOpenFeeRate_alwaysMaker(fee, orderType) ==
  IF IsFeeObject(fee) THEN fee.m ELSE fee

\* the Ostium opening rate of one plan
osOpenFeeRate(fee, orderType) ==
  IF IsFeeObject(fee)
    THEN (IF orderType = taker THEN fee.t ELSE fee.m)
    ELSE fee

\* the Hyperliquid rate of one plan
hlRate(fee, orderType) == IF orderType = taker THEN fee.t ELSE fee.m

\* hlCostOf with the fee charged once, not for opening and closing
hlCostOf_once(size, fee, orderType) ==
  Mul(size, Div(hlRate(fee, orderType), N(100)))

\* size * (rate / 100) * 2
hlCostOf(size, fee, orderType) ==
  Mul(Mul(size, Div(hlRate(fee, orderType), N(100))), N(2))

\* size * (rate / 100) + oracleFee
osCostOf(size, fee, oracleFee, orderType) ==
  Add(Mul(size, Div(osOpenFeeRate(fee, orderType), N(100))), oracleFee)

\* the maker plan of calculateArbitrage: const maker
makerOf(hl, os, feeHL, feeOS, oracleFee) ==
  calculateSingleArbitrage(hlCostOf(positionSize, feeHL, maker),
                           osCostOf(positionSize, feeOS, oracleFee, maker),
                           positionSize, maxFundingHours, hl, os, maker)

calculateArbitrage(hl, os, feeHL, feeOS, oracleFee) ==
  LET size     == positionSize
      maxHours == maxFundingHours
  IN  [maker |-> makerOf(hl, os, feeHL, feeOS, oracleFee),
       taker |-> calculateSingleArbitrage(hlCostOf(size, feeHL, taker),
                                          osCostOf(size, feeOS, oracleFee, taker),
                                          size, maxHours, hl, os, taker)]

-----------------------------------------------------------------------------
(* renderComparisonCard: the direction label *)

\* the labels: short is the venue to sell on, long the venue to buy on
short == "short"

long == "long"

\* the label with >= in place of >
directionTextOf_ge(hl, os) ==
  [hlDir |-> IF Ge(hl.mid, os.mid) THEN short ELSE long,
   osDir |-> IF Ge(hl.mid, os.mid) THEN long ELSE short]

\* hlDir and osDir of `HL:${hlDir} OS:${osDir}`
directionTextOf(hl, os) ==
  [hlDir |-> IF Gt(hl.mid, os.mid) THEN short ELSE long,
   osDir |-> IF Gt(hl.mid, os.mid) THEN long ELSE short]

\* no label rendered yet
NoDirection == [hlDir |-> "", osDir |-> ""]

-----------------------------------------------------------------------------
(* config.js: name mapping and priority assets *)

COPPER == <<"C", "O", "P", "P", "E", "R">>

XYZ100 == <<"X", "Y", "Z", "1", "0", "0">>

XAU == <<"X", "A", "U">>

HG == <<"H", "G">>

NDX == <<"N", "D", "X">>

\* Ostium name -> Hyperliquid name
NAME_MAPPING ==
  << <<XAU, GOLD>>, <<<<"X", "A", "G">>, SILVER>>, <<HG, COPPER>>, <<NDX, XYZ100>> >>

PRIORITY_ASSETS ==
  <<GOLD, SILVER, COPPER, XYZ100, XAU, <<"X", "A", "G">>, HG, NDX>>

-----------------------------------------------------------------------------
(* data-loader.js: sorting and matching *)

\* String.prototype.toUpperCase
toUpperCase(s) ==
  [i \in 1..Len(s) |->
     IF \E j \in 1..26 : LowerChars[j] = s[i]
       THEN UpperChars[CHOOSE j \in 1..26 : LowerChars[j] = s[i]]
       ELSE s[i]]

\* PRIORITY_ASSETS.some(p => name.includes(p))
isPriority(name) ==
  \E i \in 1..Len(PRIORITY_ASSETS) : Includes(name, PRIORITY_ASSETS[i])

\* PRIORITY_ASSETS.findIndex(p => name.includes(p)), zero-based, -1 if none
findIndex(name) ==
  IF isPriority(name)
    THEN (CHOOSE i \in 1..Len(PRIORITY_ASSETS) :
            /\ Includes(name, PRIORITY_ASSETS[i])
            /\ \A j \in 1..(i - 1) : ~Includes(name, PRIORITY_ASSETS[j])) - 1
    ELSE -1

\* the comparator without the index comparison among priority assets
comparePriority_noIndex(aName, bName) ==
  IF isPriority(aName) /\ ~isPriority(bName) THEN -1
  ELSE IF ~isPriority(aName) /\ isPriority(bName) THEN 1
  ELSE 0

\* the comparator handed to Array.prototype.sort
comparePriority(aName, bName) ==
  IF isPriority(aName) /\ ~isPriority(bName) THEN -1
  ELSE IF ~isPriority(aName) /\ isPriority(bName) THEN 1
  ELSE IF isPriority(aName) /\ isPriority(bName)
    THEN findIndex(aName) - findIndex(bName)
  ELSE 0

\* Array.prototype.sort is stable: an element is placed behind every element
\* placed before it that does not compare greater
RECURSIVE insertSorted(_, _, _)
insertSorted(placed, i, names) ==
  IF placed = <<>> \/ comparePriority(names[placed[Len(placed)]], names[i]) <= 0
    THEN Append(placed, i)
    ELSE Append(insertSorted(SubSeq(placed, 1, Len(placed) - 1), i, names),
                placed[Len(placed)])

RECURSIVE sortPerm(_, _)
sortPerm(names, n) ==
  IF n = 0 THEN <<>> ELSE insertSorted(sortPerm(names, n - 1), n, names)

\* items.sort(comparator over the names of the items)
arraySort(items, names) ==
  LET perm == sortPerm(names, Len(items))
  IN  [k \in 1..Len(items) |-> items[perm[k]]]

sortByPriority(contracts, nameField) ==
  arraySort(contracts,
            [i \in 1..Len(contracts) |->
               toUpperCase(StrOr(contracts[i][nameField], <<>>))])

\* commonPairs.sort(...) by the Ostium name of a pair
sortCommonPairs(pairs) ==
  arraySort(pairs, [i \in 1..Len(pairs) |-> toUpperCase(pairs[i].os.from)])

Colon == <<":">>

\* coin.split(":")[1] of a coin that contains ':'
splitColon1(coin) ==
  LET i    == CHOOSE k \in 1..Len(coin) :
                /\ coin[k] = ":"
                /\ \A m \in 1..(k - 1) : coin[m] # ":"
      rest == SubSeq(coin, i + 1, Len(coin))
      j    == IF Includes(rest, Colon)
                THEN CHOOSE k \in 1..Len(rest) :
                       /\ rest[k] = ":"
                       /\ \A m \in 1..(k - 1) : rest[m] # ":"
                ELSE Len(rest) + 1
  IN  SubSeq(rest, 1, j - 1)

\* the key under which a Hyperliquid instrument is stored in hlMap
hlKeyOf(c) ==
  toUpperCase(IF Includes(c.coin, Colon) THEN splitColon1(c.coin) ELSE c.coin)

\* NAME_MAPPING[osName], undefined for an absent key
nameMapping(osName) ==
  IF \E i \in 1..Len(NAME_MAPPING) : NAME_MAPPING[i][1] = osName
    THEN NAME_MAPPING[CHOOSE i \in 1..Len(NAME_MAPPING) : NAME_MAPPING[i][1] = osName][2]
    ELSE UndefinedStr

\* hlName: NAME_MAPPING[osName] || osName
hlNameOf(o) ==
  LET osName == toUpperCase(o.from)
  IN  StrOr(nameMapping(osName), osName)

\* hlMap[key] where an earlier instrument of the same key is kept
hlMapGet_first(hlContracts, key) ==
  IF \E i \in 1..Len(hlContracts) : hlKeyOf(hlContracts[i]) = key
    THEN hlContracts[CHOOSE i \in 1..Len(hlContracts) :
                       /\ hlKeyOf(hlContracts[i]) = key
                       /\ \A j \in 1..(i - 1) : hlKeyOf(hlContracts[j]) # key]
    ELSE Undefined

\* hlMap[key] after the forEach that fills hlMap: a later instrument
\* overwrites an earlier one of the same key
hlMapGet(hlContracts, key) ==
  IF \E i \in 1..Len(hlContracts) : hlKeyOf(hlContracts[i]) = key
    THEN hlContracts[CHOOSE i \in 1..Len(hlContracts) :
                       /\ hlKeyOf(hlContracts[i]) = key
                       /\ \A j \in (i + 1)..Len(hlContracts) :
                            hlKeyOf(hlContracts[j]) # key]
    ELSE Undefined

\* name of a pair: osName === hlName ? osName : `${hlName} / ${osName}`
pairNameOf(o) ==
  LET osName == toUpperCase(o.from)
      hlName == hlNameOf(o)
  IN  IF osName = hlName THEN osName ELSE hlName \o <<" ", "/", " ">> \o osName

hasMatch(hlContracts, o) ==
  hlMapGet(hlContracts, hlNameOf(o)) # Undefined

\* commonPairs after the forEach over the Ostium instruments
RECURSIVE matchPairs(_, _)
matchPairs(hlContracts, osContracts) ==
  IF osContracts = <<>> THEN <<>>
  ELSE LET o == Head(osContracts)
           rest == matchPairs(hlContracts, Tail(osContracts))
       IN  IF hasMatch(hlContracts, o)
             THEN <<[hl |-> hlMapGet(hlContracts, hlNameOf(o)),
                     os |-> o,
                     name |-> pairNameOf(o)]>> \o rest
             ELSE rest

-----------------------------------------------------------------------------
(* rendered cards *)

\* what renderHLCard shows of the fee resolution when CURRENT_TIER is tier
hlCardOf(c, tier) == [coin |-> c.coin, fee |-> getHLFeeRateAt(c, tier)]

\* what renderOSCard shows of the fee resolution
osCardOf(c) == [from |-> c.from, fee |-> getOSFeeRate(c)]

\* what renderComparisonCard computes for a pair when CURRENT_TIER is tier
comparisonCardOf(p, tier) ==
  LET feeObj == getHLFeeRateAt(p.hl, tier)
      fee    == getOSFeeRate(p.os)
  IN  [name |-> p.name,
       hlFee |-> feeObj,
       osFee |-> fee,
       arb |-> calculateArbitrage(p.hl, p.os, feeObj, fee, OSTIUM_ORACLE_FEE),
       directionText |-> directionTextOf(p.hl, p.os)]

hlCards(contracts, tier) ==
  [i \in 1..Len(contracts) |-> hlCardOf(contracts[i], tier)]

osCards(contracts) == [i \in 1..Len(contracts) |-> osCardOf(contracts[i])]

comparisonCards(pairs, tier) ==
  [i \in 1..Len(pairs) |-> comparisonCardOf(pairs[i], tier)]

-----------------------------------------------------------------------------
(* Inputs *)

PriceBase == 1000

MaxTick == 1

MaxRate == 1

\* prices: zero, and PriceBase .. PriceBase + MaxTick
PriceSet == {N(0)} \cup {N(PriceBase + i) : i \in 0..MaxTick}

\* hourly rates in percent, in thousandths: -MaxRate/1000 .. MaxRate/1000
RateSet == {R(i, 1000) : i \in (-MaxRate)..MaxRate}

main == <<"m", "a", "i", "n">>

xyz == <<"x", "y", "z">>

crypto == <<"c", "r", "y", "p", "t", "o">>

forex == <<"f", "o", "r", "e", "x">>

NoResult == [maker |-> Undefined, taker |-> Undefined]

\* a JSON file with an empty contract list
EmptyFile == [contracts |-> <<>>]

websocket == "websocket"

polling == "polling"

\* the scripts of the application as they are loaded: no loadData call, no
\* timer, no socket, the first option of the tier select selected
NoApp ==
  /\ loads = <<>>
  /\ newestLoad = Null
  /\ intervals = 0
  /\ DATA_MODE = websocket
  /\ pollingInterval = FALSE
  /\ probes = 0
  /\ wsLoaded = TRUE
  /\ started = FALSE
  /\ sockets = <<>>
  /\ socket = 0
  /\ isConnected = FALSE
  /\ heartbeats = 0
  /\ tierSelect = "0"
  /\ emitted = <<>>

\* the page as the scripts leave it when they are loaded: no data, nothing
\* rendered, no request made
NoPage ==
  /\ GLOBAL_HL_DATA = <<>>
  /\ GLOBAL_OS_DATA = <<>>
  /\ GLOBAL_COMMON_PAIRS = <<>>
  /\ hlList = <<>>
  /\ osList = <<>>
  /\ commonList = <<>>
  /\ hlFile = EmptyFile
  /\ osFile = EmptyFile
  /\ loadDataResult = "none"
  /\ isPolling = FALSE
  /\ passes = <<>>
  /\ GLOBAL_COMMON_PAIRS_DATA = Null
  /\ statusEl = ""
  /\ pollTimer = FALSE
  /\ NoApp

\* what renderComparisonCard computes for the pair (hlContract, osContract)
RenderComparisonCard ==
  /\ arb = NoResult
  /\ hlFee' = getHLFeeRate(hlContract)
  /\ osFee' = getOSFeeRate(osContract)
  /\ arb' = calculateArbitrage(hlContract, osContract, hlFee', osFee', OSTIUM_ORACLE_FEE)
  /\ directionText' = directionTextOf(hlContract, osContract)
  /\ UNCHANGED <<appVars, configVars, hlContract, osContract, pageVars>>

\* a comparison card is about to be rendered: any book on both venues
Init ==
  /\ CURRENT_TIER = 0
  /\ REFERRAL_DISCOUNT = DefaultReferralDiscount
  /\ positionSize \in {N(0), N(1000)}
  /\ maxFundingHours = N(50)
  /\ hlContract \in [coin : {BTC}, dex : {main},
                     bid : PriceSet, mid : PriceSet, ask : PriceSet,
                     fundingRate : {Undefined, [rateHourly |-> R(1, 1000)]}]
  /\ osContract \in [from : {BTC}, group : {crypto, forex},
                     bid : PriceSet, mid : PriceSet, ask : PriceSet,
                     fundingRate : {Undefined, [longPayHourly |-> R(1, 1000)]},
                     rolloverRate : {Undefined, [hourly |-> R(-1, 1000)]}]
  /\ hlFee = Undefined
  /\ osFee = Undefined
  /\ arb = NoResult
  /\ directionText = NoDirection
  /\ NoPage

Next == RenderComparisonCard

Spec == Init /\ [][Next]_vars

\* locked books (bid = mid = ask) with any funding and rollover fields
InitFunding ==
  /\ CURRENT_TIER \in {0, 4}
  /\ REFERRAL_DISCOUNT = DefaultReferralDiscount
  /\ positionSize \in {N(0), N(1000)}
  /\ maxFundingHours \in {N(0), N(50)}
  /\ \E p \in PriceSet, f \in {Undefined} \cup {[rateHourly |-> r] : r \in RateSet} :
        hlContract = [coin |-> BTC, dex |-> main, bid |-> p, mid |-> p, ask |-> p,
                      fundingRate |-> f]
  /\ \E p \in PriceSet, g \in {crypto, forex},
        f \in {Undefined} \cup {[longPayHourly |-> r] : r \in RateSet},
        ro \in {Undefined} \cup {[hourly |-> r] : r \in RateSet} :
        osContract = [from |-> BTC, group |-> g, bid |-> p, mid |-> p, ask |-> p,
                      fundingRate |-> f, rolloverRate |-> ro]
  /\ hlFee = Undefined
  /\ osFee = Undefined
  /\ arb = NoResult
  /\ directionText = NoDirection
  /\ NoPage

SpecFunding == InitFunding /\ [][Next]_vars

XAG == <<"X", "A", "G">>

commodities == <<"c", "o", "m", "m", "o", "d", "i", "t", "i", "e", "s">>

\* one locked book on both venues, no funding: any tier, discount, fee class
\* of either venue and position size
InitCost ==
  /\ CURRENT_TIER \in 0..MaxTier
  /\ REFERRAL_DISCOUNT \in {0, DefaultReferralDiscount, MaxDiscount}
  /\ positionSize \in {N(0), N(1000)}
  /\ maxFundingHours = N(50)
  /\ hlContract \in [coin : {BTC, SILVER, XYZ_GOLD}, dex : {main, xyz},
                     bid : {N(PriceBase)}, mid : {N(PriceBase)}, ask : {N(PriceBase)},
                     fundingRate : {Undefined}]
  /\ osContract \in [from : {BTC, XAG}, group : {crypto, forex, commodities, UndefinedStr},
                     bid : {N(PriceBase)}, mid : {N(PriceBase)}, ask : {N(PriceBase)},
                     fundingRate : {Undefined}, rolloverRate : {Undefined}]
  /\ hlFee = Undefined
  /\ osFee = Undefined
  /\ arb = NoResult
  /\ directionText = NoDirection
  /\ NoPage

SpecCost == InitCost /\ [][Next]_vars

\* what renderHLCard computes for hlContract
RenderHLCard ==
  /\ hlFee = Undefined
  /\ hlFee' = getHLFeeRate(hlContract)
  /\ UNCHANGED <<appVars, configVars, hlContract, osContract, osFee, arb, directionText, pageVars>>

\* a Hyperliquid card is about to be rendered: any tier, discount, dex and name
InitFee ==
  /\ CURRENT_TIER \in 0..MaxTier
  /\ REFERRAL_DISCOUNT \in 0..MaxDiscount
  /\ positionSize = N(1000)
  /\ maxFundingHours = N(50)
  /\ hlContract \in [coin : {BTC, GOLD, XYZ_GOLD, SILVER}, dex : {UndefinedStr, main, xyz},
                     bid : {N(PriceBase)}, mid : {N(PriceBase)}, ask : {N(PriceBase)},
                     fundingRate : {Undefined}]
  /\ osContract = [from |-> BTC, group |-> crypto,
                   bid |-> N(PriceBase), mid |-> N(PriceBase), ask |-> N(PriceBase),
                   fundingRate |-> Undefined, rolloverRate |-> Undefined]
  /\ hlFee = Undefined
  /\ osFee = Undefined
  /\ arb = NoResult
  /\ directionText = NoDirection
  /\ NoPage

NextFee == RenderHLCard

SpecFee == InitFee /\ [][NextFee]_vars

\* an instrument of the Hyperliquid file: a locked book at PriceBase
hlInstrument(coin, dex) ==
  [coin |-> coin, dex |-> dex,
   bid |-> N(PriceBase), mid |-> N(PriceBase), ask |-> N(PriceBase),
   fundingRate |-> Undefined]

\* an instrument of the Ostium file: a locked book one above PriceBase
osInstrument(from, group) ==
  [from |-> from, group |-> group,
   bid |-> N(PriceBase + 1), mid |-> N(PriceBase + 1), ask |-> N(PriceBase + 1),
   fundingRate |-> Undefined, rolloverRate |-> Undefined]

XYZ_SILVER == <<"x", "y", "z", ":", "S", "I", "L", "V", "E", "R">>

\* the values of the options of the tier select: VIP 0 .. VIP 6
TierOptions == 0..MaxTier

\* what renderOSCard computes for osContract
RenderOSCard ==
  /\ osFee = Undefined
  /\ osFee' = getOSFeeRate(osContract)
  /\ UNCHANGED <<appVars, configVars, hlContract, osContract, hlFee, arb, directionText, pageVars>>

XYZ_GOLDM == <<"x", "y", "z", ":", "G", "O", "L", "D", "M">>

EUR == <<"E", "U", "R">>

flx == <<"f", "l", "x">>

indices == <<"i", "n", "d", "i", "c", "e", "s">>

stocks == <<"s", "t", "o", "c", "k", "s">>

FOREX == <<"F", "O", "R", "E", "X">>

other == <<"o", "t", "h", "e", "r">>

\* the classifications of a Hyperliquid instrument: absent, known, unknown
DexSet == {UndefinedStr, main, xyz, flx}

\* the classifications of an Ostium instrument: absent, empty, known, unknown
GroupSet == {UndefinedStr, <<>>, crypto, forex, FOREX, indices, stocks,
             commodities, other}

\* a card of either venue is about to be rendered: any tier of the select,
\* any name and any classification
InitClass ==
  /\ CURRENT_TIER \in TierOptions
  /\ REFERRAL_DISCOUNT = DefaultReferralDiscount
  /\ positionSize = N(1000)
  /\ maxFundingHours = N(50)
  /\ \E coin \in {BTC, GOLD, XYZ_GOLD, XYZ_GOLDM, XYZ_SILVER}, dex \in DexSet :
       hlContract = hlInstrument(coin, dex)
  /\ \E from \in {BTC, EUR, XAU, XAG}, group \in GroupSet :
       osContract = osInstrument(from, group)
  /\ hlFee = Undefined
  /\ osFee = Undefined
  /\ arb = NoResult
  /\ directionText = NoDirection
  /\ NoPage

NextClass == RenderHLCard \/ RenderOSCard

SpecClass == InitClass /\ [][NextClass]_vars

-----------------------------------------------------------------------------
(* Instrument lists *)

MaxLen == 2

\* the lists of at most n different elements of S
ListsOf(S, n) ==
  {s \in UNION {[1..k -> S] : k \in 0..n} :
     \A i, j \in 1..Len(s) : i # j => s[i] # s[j]}

-----------------------------------------------------------------------------
(* data-loader.js loadData and ui-controls.js updateTier *)

\* loadData, both fetches and both parses succeeding
LoadData ==
  LET hlContracts == hlFile.contracts
      osContracts == osFile.contracts
      commonPairs == matchPairs(hlContracts, osContracts)
      sortedPairs == IF Len(commonPairs) > 0 THEN sortCommonPairs(commonPairs)
                                             ELSE commonPairs
  IN  /\ GLOBAL_HL_DATA' = sortByPriority(hlContracts, "coin")
      /\ GLOBAL_OS_DATA' = sortByPriority(osContracts, "from")
      /\ hlList' = hlCards(GLOBAL_HL_DATA', CURRENT_TIER)
      /\ osList' = osCards(GLOBAL_OS_DATA')
      /\ GLOBAL_COMMON_PAIRS' = sortedPairs
      /\ commonList' = comparisonCards(sortedPairs, CURRENT_TIER)
      /\ loadDataResult' = "true"
      /\ UNCHANGED <<appVars, configVars, cardVars, hlFile, osFile, pollVars>>

\* updateTier that renders the Hyperliquid cards only
UpdateTier_hlListOnly ==
  \E t \in TierOptions :
    /\ CURRENT_TIER' = t
    /\ UNCHANGED <<REFERRAL_DISCOUNT, positionSize, maxFundingHours>>
    /\ UNCHANGED <<appVars, cardVars, dataVars, loadVars, pollVars, osList, commonList>>
    /\ hlList' = hlCards(GLOBAL_HL_DATA, t)

\* updateTier with the select at option t
UpdateTier ==
  \E t \in TierOptions :
    /\ CURRENT_TIER' = t
    /\ UNCHANGED <<REFERRAL_DISCOUNT, positionSize, maxFundingHours>>
    /\ UNCHANGED <<appVars, cardVars, dataVars, loadVars, pollVars, osList>>
    /\ hlList' = hlCards(GLOBAL_HL_DATA, t)
    /\ commonList' = IF Len(GLOBAL_COMMON_PAIRS) > 0
                       THEN comparisonCards(GLOBAL_COMMON_PAIRS, t)
                       ELSE commonList

TierHL == {hlInstrument(BTC, main), hlInstrument(XYZ_GOLD, xyz),
           hlInstrument(XYZ_SILVER, xyz)}

TierOS == {osInstrument(BTC, crypto), osInstrument(XAU, commodities),
           osInstrument(XAG, commodities)}

\* the page before its first loadData, for any two files and any discount
InitTier ==
  /\ CURRENT_TIER = 0
  /\ REFERRAL_DISCOUNT \in {0, DefaultReferralDiscount, MaxDiscount}
  /\ positionSize = N(1000)
  /\ maxFundingHours = N(50)
  /\ hlContract = hlInstrument(BTC, main)
  /\ osContract = osInstrument(BTC, crypto)
  /\ hlFee = Undefined
  /\ osFee = Undefined
  /\ arb = NoResult
  /\ directionText = NoDirection
  /\ GLOBAL_HL_DATA = <<>>
  /\ GLOBAL_OS_DATA = <<>>
  /\ GLOBAL_COMMON_PAIRS = <<>>
  /\ hlList = <<>>
  /\ osList = <<>>
  /\ commonList = <<>>
  /\ hlFile \in [contracts : ListsOf(TierHL, MaxLen)]
  /\ osFile \in [contracts : ListsOf(TierOS, MaxLen)]
  /\ loadDataResult = "none"
  /\ isPolling = FALSE
  /\ passes = <<>>
  /\ GLOBAL_COMMON_PAIRS_DATA = Null
  /\ statusEl = ""
  /\ pollTimer = FALSE
  /\ NoApp

NextTier == LoadData \/ UpdateTier

SpecTier == InitTier /\ [][NextTier]_vars

ETH == <<"E", "T", "H">>

XAGXAU == <<"X", "A", "G", "X", "A", "U">>

\* Hyperliquid instruments: two without priority, GOLD under two coins of one
\* key and one priority index, SILVER of a later priority index
LoadHL == {hlInstrument(BTC, main), hlInstrument(ETH, main),
           hlInstrument(GOLD, main), hlInstrument(XYZ_GOLD, xyz),
           hlInstrument(XYZ_SILVER, xyz)}

\* Ostium instruments: two without priority, one of them on this venue only,
\* two aliases of different priority index, a name that contains two
\* priority entries, and GOLD under its own name next to its alias XAU
LoadOS == {osInstrument(BTC, crypto), osInstrument(EUR, forex),
           osInstrument(XAU, commodities), osInstrument(XAG, commodities),
           osInstrument(XAGXAU, commodities), osInstrument(GOLD, commodities)}

\* the page before its first loadData, for any two files
InitLoad ==
  /\ CURRENT_TIER = 0
  /\ REFERRAL_DISCOUNT = DefaultReferralDiscount
  /\ positionSize = N(1000)
  /\ maxFundingHours = N(50)
  /\ hlContract = hlInstrument(BTC, main)
  /\ osContract = osInstrument(BTC, crypto)
  /\ hlFee = Undefined
  /\ osFee = Undefined
  /\ arb = NoResult
  /\ directionText = NoDirection
  /\ GLOBAL_HL_DATA = <<>>
  /\ GLOBAL_OS_DATA = <<>>
  /\ GLOBAL_COMMON_PAIRS = <<>>
  /\ hlList = <<>>
  /\ osList = <<>>
  /\ commonList = <<>>
  /\ hlFile \in [contracts : ListsOf(LoadHL, MaxLen + 1)]
  /\ osFile \in [contracts : ListsOf(LoadOS, MaxLen)]
  /\ loadDataResult = "none"
  /\ isPolling = FALSE
  /\ passes = <<>>
  /\ GLOBAL_COMMON_PAIRS_DATA = Null
  /\ statusEl = ""
  /\ pollTimer = FALSE
  /\ NoApp

NextLoad == LoadData

SpecLoad == InitLoad /\ [][NextLoad]_vars

-----------------------------------------------------------------------------
(* websocket-client.js: the handlers of 'initial_data' and 'data_update' *)

hyperliquid == "hyperliquid"

ostium == "ostium"

\* a venue's data without contract list, or no data for the venue at all
NoContracts == [updated_at |-> ""]

\* !(!data || !data.contracts)
HasContracts(data) == "contracts" \in DOMAIN data

\* GLOBAL_HL_DATA after updateHyperliquidData(data)
wsHLData(data) ==
  IF HasContracts(data) THEN sortByPriority(data.contracts, "coin")
                        ELSE GLOBAL_HL_DATA

\* element hlList after updateHyperliquidData(data)
wsHLList(data) ==
  IF HasContracts(data) THEN hlCards(wsHLData(data), CURRENT_TIER) ELSE hlList

\* GLOBAL_OS_DATA after updateOstiumData(data)
wsOSData(data) ==
  IF HasContracts(data) THEN sortByPriority(data.contracts, "from")
                        ELSE GLOBAL_OS_DATA

\* element osList after updateOstiumData(data)
wsOSList(data) ==
  IF HasContracts(data) THEN osCards(wsOSData(data)) ELSE osList

\* GLOBAL_COMMON_PAIRS and element commonList after updateComparisonList,
\* called when the two lists are hlData and osData
updateComparisonList(hlData, osData) ==
  IF Len(hlData) = 0 \/ Len(osData) = 0
    THEN [pairs |-> GLOBAL_COMMON_PAIRS, list |-> commonList]
    ELSE LET commonPairs == matchPairs(hlData, osData)
         IN  IF Len(commonPairs) > 0
               THEN [pairs |-> sortCommonPairs(commonPairs),
                     list  |-> comparisonCards(sortCommonPairs(commonPairs),
                                               CURRENT_TIER)]
               ELSE [pairs |-> commonPairs, list |-> commonList]

WSHL == {hlInstrument(BTC, main), hlInstrument(XYZ_GOLD, xyz)}

WSOS == {osInstrument(BTC, crypto), osInstrument(EUR, forex),
         osInstrument(XAU, commodities)}

\* what a message can carry for Hyperliquid
WSHLData == {NoContracts} \cup [contracts : ListsOf(WSHL, MaxLen)]

\* what a message can carry for Ostium
WSOSData == {NoContracts} \cup [contracts : ListsOf(WSOS, MaxLen)]

\* socket.on('initial_data'): handleDataUpdate(data)
HandleInitialData ==
  \E hlData \in WSHLData, osData \in WSOSData :
    /\ GLOBAL_HL_DATA' = wsHLData(hlData)
    /\ hlList' = wsHLList(hlData)
    /\ GLOBAL_OS_DATA' = wsOSData(osData)
    /\ osList' = wsOSList(osData)
    /\ UNCHANGED <<appVars, configVars, cardVars, GLOBAL_COMMON_PAIRS, commonList,
                   loadVars, pollVars>>

\* socket.on('data_update'): handlePlatformUpdate(update.platform, update.data)
HandlePlatformUpdate ==
  \E platform \in {hyperliquid, ostium},
     data \in WSHLData \cup WSOSData :
    /\ platform = hyperliquid => data \in WSHLData
    /\ platform = ostium => data \in WSOSData
    /\ GLOBAL_HL_DATA' = IF platform = hyperliquid THEN wsHLData(data)
                                                   ELSE GLOBAL_HL_DATA
    /\ hlList' = IF platform = hyperliquid THEN wsHLList(data) ELSE hlList
    /\ GLOBAL_OS_DATA' = IF platform = ostium THEN wsOSData(data)
                                              ELSE GLOBAL_OS_DATA
    /\ osList' = IF platform = ostium THEN wsOSList(data) ELSE osList
    /\ \E after \in {updateComparisonList(GLOBAL_HL_DATA', GLOBAL_OS_DATA')} :
         /\ GLOBAL_COMMON_PAIRS' = after.pairs
         /\ commonList' = after.list
    /\ UNCHANGED <<appVars, configVars, cardVars, loadVars, pollVars>>

\* the page when the socket is created: no data yet
InitWS ==
  /\ CURRENT_TIER = 0
  /\ REFERRAL_DISCOUNT = DefaultReferralDiscount
  /\ positionSize = N(1000)
  /\ maxFundingHours = N(50)
  /\ hlContract = hlInstrument(BTC, main)
  /\ osContract = osInstrument(BTC, crypto)
  /\ hlFee = Undefined
  /\ osFee = Undefined
  /\ arb = NoResult
  /\ directionText = NoDirection
  /\ NoPage

NextWS == HandleInitialData \/ HandlePlatformUpdate

SpecWS == InitWS /\ [][NextWS]_vars

-----------------------------------------------------------------------------
(* http-client.js: polling *)

MaxPasses == 2

\* the awaits of fetchAllData
awaitFetch == "fetch"

awaitJson == "json"

\* a contract with the fee field the backend adds
withFee(c, fee) ==
  [x \in DOMAIN c \cup {"fee"} |-> IF x = "fee" THEN fee ELSE c[x]]

\* renderers.js renderHLCard: the fee shown is contract.fee || {t: 0, m: 0}
backendHLCardOf(c) ==
  [coin |-> c.coin,
   fee  |-> IF "fee" \in DOMAIN c THEN c.fee ELSE [t |-> N(0), m |-> N(0)]]

\* renderers.js renderOSCard: the fee shown is contract.fee || {}
backendOSCardOf(c) ==
  [from |-> c.from, fee |-> IF "fee" \in DOMAIN c THEN c.fee ELSE Undefined]

\* renderers.js renderComparisonCardWithArbitrage
backendComparisonCardOf(p) == [name |-> p.name, arb |-> p.arbitrage]

\* GLOBAL_HL_DATA after updateHyperliquidData(data) of http-client.js
httpHLData(data) == IF HasContracts(data) THEN data.contracts ELSE GLOBAL_HL_DATA

httpHLList(data) ==
  IF HasContracts(data)
    THEN [i \in 1..Len(data.contracts) |-> backendHLCardOf(data.contracts[i])]
    ELSE hlList

\* GLOBAL_OS_DATA after updateOstiumData(data) of http-client.js
httpOSData(data) == IF HasContracts(data) THEN data.contracts ELSE GLOBAL_OS_DATA

httpOSList(data) ==
  IF HasContracts(data)
    THEN [i \in 1..Len(data.contracts) |-> backendOSCardOf(data.contracts[i])]
    ELSE osList

\* !(!data || !data.pairs)
HasPairs(data) == "pairs" \in DOMAIN data

\* the cards of commonList after handleCommonPairsUpdate(data)
httpCommonList(data) ==
  IF HasPairs(data)
    THEN [i \in 1..Len(data.pairs) |-> backendComparisonCardOf(data.pairs[i])]
    ELSE commonList

\* the sequence without its i-th element
RemoveAt(seq, i) == SubSeq(seq, 1, i - 1) \o SubSeq(seq, i + 1, Len(seq))

\* fetchAllData without the guard on isPolling
fetchAllDataSkips_never == FALSE

\* if (isPolling) return
fetchAllDataSkips == isPolling

\* fetchAllData up to its first await
fetchAllDataStart ==
  IF fetchAllDataSkips
    THEN UNCHANGED <<isPolling, passes>>
    ELSE /\ isPolling' = TRUE
         /\ passes' = Append(passes, awaitFetch)

\* initHttpPolling, on DOMContentLoaded
InitHttpPolling ==
  /\ ~pollTimer
  /\ fetchAllDataStart
  /\ pollTimer' = TRUE
  /\ statusEl' = "polling"
  /\ UNCHANGED <<appVars, configVars, cardVars, dataVars, domVars, loadVars,
                 GLOBAL_COMMON_PAIRS_DATA>>

\* the interval timer fires: fetchAllData()
PollTick ==
  /\ pollTimer
  /\ Len(passes) < MaxPasses
  /\ fetchAllDataStart
  /\ UNCHANGED <<appVars, configVars, cardVars, dataVars, domVars, loadVars,
                 GLOBAL_COMMON_PAIRS_DATA, statusEl, pollTimer>>

\* the three fetches of a pass have resolved: the pass awaits the parsing
FetchResolved ==
  \E i \in 1..Len(passes) :
    /\ passes[i] = awaitFetch
    /\ passes' = [passes EXCEPT ![i] = awaitJson]
    /\ UNCHANGED <<appVars, configVars, cardVars, dataVars, domVars, loadVars,
                   isPolling, GLOBAL_COMMON_PAIRS_DATA, statusEl, pollTimer>>

\* a fetch or a parse of a pass has rejected: catch, then finally
PassFailed ==
  \E i \in 1..Len(passes) :
    /\ statusEl' = "offline"
    /\ isPolling' = FALSE
    /\ passes' = RemoveAt(passes, i)
    /\ UNCHANGED <<appVars, configVars, cardVars, dataVars, domVars, loadVars,
                   GLOBAL_COMMON_PAIRS_DATA, pollTimer>>

PollHL == {hlInstrument(BTC, main),
           withFee(hlInstrument(XYZ_GOLD, xyz), [t |-> R(864, 10000), m |-> R(288, 10000)])}

PollOS == {osInstrument(BTC, crypto), withFee(osInstrument(XAU, commodities), R(3, 100))}

\* a parsed file, or null for a response that is not ok
PollHLData == {Null} \cup [contracts : ListsOf(PollHL, MaxLen)]

PollOSData == {Null} \cup [contracts : ListsOf(PollOS, MaxLen)]

PollPairsData ==
  {Null, [pairs |-> <<>>],
   [pairs |-> <<[hl |-> hlInstrument(BTC, main), os |-> osInstrument(BTC, crypto),
                 name |-> BTC, arbitrage |-> Null]>>]}

\* the three parses of a pass have resolved: the updates, then finally
PassCompleted ==
  \E i \in 1..Len(passes) :
    /\ passes[i] = awaitJson
    /\ \E hlData \in PollHLData, osData \in PollOSData, pairsData \in PollPairsData :
         /\ GLOBAL_HL_DATA' = httpHLData(hlData)
         /\ hlList' = httpHLList(hlData)
         /\ GLOBAL_OS_DATA' = httpOSData(osData)
         /\ osList' = httpOSList(osData)
         /\ GLOBAL_COMMON_PAIRS_DATA' = IF HasPairs(pairsData) THEN pairsData
                                        ELSE GLOBAL_COMMON_PAIRS_DATA
         /\ commonList' = httpCommonList(pairsData)
    /\ isPolling' = FALSE
    /\ passes' = RemoveAt(passes, i)
    /\ UNCHANGED <<appVars, configVars, cardVars, GLOBAL_COMMON_PAIRS, loadVars,
                   statusEl, pollTimer>>

\* the page when main-http starts
InitPoll ==
  /\ CURRENT_TIER = 0
  /\ REFERRAL_DISCOUNT = DefaultReferralDiscount
  /\ positionSize = N(1000)
  /\ maxFundingHours = N(50)
  /\ hlContract = hlInstrument(BTC, main)
  /\ osContract = osInstrument(BTC, crypto)
  /\ hlFee = Undefined
  /\ osFee = Undefined
  /\ arb = NoResult
  /\ directionText = NoDirection
  /\ NoPage

NextPoll ==
  \/ InitHttpPolling
  \/ PollTick
  \/ FetchResolved
  \/ PassFailed
  \/ PassCompleted

SpecPoll == InitPoll /\ [][NextPoll]_vars

-----------------------------------------------------------------------------
(* Overlapping loadData calls: data-loader.js loadData, main.js *)

\* at most this many loadData calls are suspended at an await at a time
MaxLoads == 2

\* a fetch whose promise is rejected
FetchRejected == [kind |-> "rejected"]

\* a response whose body is not JSON: res.json() is rejected
NotJSON == [kind |-> "notjson"]

\* a response whose body res.json() parses to data
Parsed(data) == [kind |-> "parsed", data |-> data]

\* what a request for a file can be answered
ResponsesTo(file) == {FetchRejected, NotJSON, Parsed(file)}

\* what the two requests of one loadData call can be answered
LoadsOf(hl, os) == [hl : ResponsesTo(hl), os : ResponsesTo(os)]

\* data.contracts || []
contractsOf(data) == IF HasContracts(data) THEN data.contracts ELSE <<>>

\* osContract.from.toUpperCase() raises a TypeError on a record without from
matchingThrows(osContracts) ==
  \E i \in 1..Len(osContracts) : osContracts[i].from = UndefinedStr

\* commonList as the catch block of loadData leaves it
LoadFailedState == <<[error |-> "load failed"]>>

\* the catch block: nothing but the error state of commonList and return false
loadDataCaught ==
  /\ commonList' = LoadFailedState
  /\ loadDataResult' = "false"

\* loadData from the point where both responses are in: the parses, the
\* assignments in their order, and the catch block wherever the try block
\* is left
loadDataContinues(load) ==
  IF load.hl.kind # "parsed" \/ load.os.kind # "parsed"
    THEN /\ loadDataCaught
         /\ UNCHANGED <<dataVars, hlList, osList>>
    ELSE LET hlContracts == contractsOf(load.hl.data)
             osContracts == contractsOf(load.os.data)
         IN  /\ GLOBAL_HL_DATA' = sortByPriority(hlContracts, "coin")
             /\ GLOBAL_OS_DATA' = sortByPriority(osContracts, "from")
             /\ hlList' = hlCards(GLOBAL_HL_DATA', CURRENT_TIER)
             /\ osList' = osCards(GLOBAL_OS_DATA')
             /\ IF matchingThrows(osContracts)
                  THEN /\ loadDataCaught
                       /\ UNCHANGED GLOBAL_COMMON_PAIRS
                  ELSE \E commonPairs \in {matchPairs(hlContracts, osContracts)} :
                         \E sortedPairs \in {IF Len(commonPairs) > 0
                                               THEN sortCommonPairs(commonPairs)
                                               ELSE commonPairs} :
                           /\ GLOBAL_COMMON_PAIRS' = sortedPairs
                           /\ commonList' = comparisonCards(sortedPairs, CURRENT_TIER)
                           /\ loadDataResult' = "true"

\* loadData up to its first await: the two requests are sent
loadDataStarts ==
  \E load \in LoadsOf(hlFile, osFile) :
    /\ loads' = Append(loads, load)
    /\ newestLoad' = load

\* a tick of setInterval(loadData, TIMER_REFRESH_INTERVAL)
TimerLoadData ==
  /\ intervals > 0
  /\ Len(loads) < MaxLoads
  /\ loadDataStarts
  /\ UNCHANGED <<intervals, modeVars, socketVars, vipVars, configVars, cardVars,
                 pageVars>>

\* the responses of a suspended loadData call are in and it runs to its end;
\* the calls are resumed in the order in which their responses arrive
LoadDataSettled ==
  \E i \in 1..Len(loads) :
    /\ loadDataContinues(loads[i])
    /\ loads' = RemoveAt(loads, i)
    /\ UNCHANGED <<newestLoad, intervals, modeVars, socketVars, vipVars,
                   configVars, cardVars, hlFile, osFile, pollVars>>

\* an Ostium record without from
NoFrom == [osInstrument(BTC, crypto) EXCEPT !.from = UndefinedStr]

\* the versions of hyperliquid_filtered.json
AsyncHLFiles ==
  {[contracts |-> <<hlInstrument(BTC, main)>>],
   [contracts |-> <<hlInstrument(BTC, main), hlInstrument(XYZ_GOLD, xyz)>>]}

\* the versions of ostium_filtered.json, one of them with a malformed record
AsyncOSFiles ==
  {[contracts |-> <<osInstrument(BTC, crypto)>>],
   [contracts |-> <<osInstrument(XAU, commodities), osInstrument(BTC, crypto)>>],
   [contracts |-> <<NoFrom>>]}

\* the backend rewrites the two files
FileWritten ==
  /\ hlFile' \in AsyncHLFiles
  /\ osFile' \in AsyncOSFiles
  /\ <<hlFile', osFile'>> # <<hlFile, osFile>>
  /\ UNCHANGED <<appVars, configVars, cardVars, dataVars, domVars,
                 loadDataResult, pollVars>>

\* the page when main.js has run and DOMContentLoaded has called loadData
InitAsync ==
  /\ CURRENT_TIER = 0
  /\ REFERRAL_DISCOUNT = DefaultReferralDiscount
  /\ positionSize = N(1000)
  /\ maxFundingHours = N(50)
  /\ hlContract = hlInstrument(BTC, main)
  /\ osContract = osInstrument(BTC, crypto)
  /\ hlFee = Undefined
  /\ osFee = Undefined
  /\ arb = NoResult
  /\ directionText = NoDirection
  /\ GLOBAL_HL_DATA = <<>>
  /\ GLOBAL_OS_DATA = <<>>
  /\ GLOBAL_COMMON_PAIRS = <<>>
  /\ hlList = <<>>
  /\ osList = <<>>
  /\ commonList = <<>>
  /\ hlFile \in AsyncHLFiles
  /\ osFile \in AsyncOSFiles
  /\ loadDataResult = "none"
  /\ isPolling = FALSE
  /\ passes = <<>>
  /\ GLOBAL_COMMON_PAIRS_DATA = Null
  /\ statusEl = ""
  /\ pollTimer = FALSE
  /\ newestLoad \in LoadsOf(hlFile, osFile)
  /\ loads = <<newestLoad>>
  /\ intervals = 1
  /\ DATA_MODE = websocket
  /\ pollingInterval = FALSE
  /\ probes = 0
  /\ wsLoaded = TRUE
  /\ started = FALSE
  /\ sockets = <<>>
  /\ socket = 0
  /\ isConnected = FALSE
  /\ heartbeats = 0
  /\ tierSelect = "0"
  /\ emitted = <<>>

NextAsync == TimerLoadData \/ LoadDataSettled \/ FileWritten

SpecAsync == InitAsync /\ [][NextAsync]_vars

-----------------------------------------------------------------------------
(* The mode controller: main.js (unnamed/part_001) over websocket-client.js *)

\* at most this many testSockets await their outcome at a time
MaxProbes == 1

\* at most this many sockets are created by initWebSocket
MaxSockets == 2

\* at most this many loadData calls of the mode controller are suspended at
\* an await at a time
MaxPollLoads == 1

\* what the mode controller and the socket client leave alone
restOfPage ==
  <<configVars, cardVars, dataVars, domVars, loadVars, isPolling, passes,
    GLOBAL_COMMON_PAIRS_DATA, pollTimer, vipVars>>

\* fallbackToPolling that never clears the timer it replaces
fallbackToPolling_noClear(hadTimer, running) ==
  /\ Len(loads) < MaxPollLoads
  /\ DATA_MODE' = polling
  /\ statusEl' = "polling"
  /\ loadDataStarts
  /\ intervals' = running + 1
  /\ pollingInterval' = TRUE

\* fallbackToPolling, called when pollingInterval holds a timer or not
\* (hadTimer) and that many loadData timers are running
fallbackToPolling(hadTimer, running) ==
  /\ Len(loads) < MaxPollLoads
  /\ DATA_MODE' = polling
  /\ statusEl' = "polling"
  /\ loadDataStarts
  /\ intervals' = (IF hadTimer THEN running - 1 ELSE running) + 1
  /\ pollingInterval' = TRUE

\* tryWebSocket: polling at once when the client script is missing, a
\* testSocket otherwise
tryWebSocket(hadTimer, running) ==
  IF ~wsLoaded
    THEN /\ fallbackToPolling(hadTimer, running)
         /\ UNCHANGED probes
    ELSE /\ probes < MaxProbes
         /\ probes' = probes + 1
         /\ pollingInterval' = hadTimer
         /\ intervals' = running
         /\ UNCHANGED <<DATA_MODE, statusEl, loads, newestLoad>>

\* initWebSocket: a new socket is assigned to socket, the previous one is
\* left as it is; startHeartbeat sets one more timer
initWebSocket ==
  /\ Len(sockets) < MaxSockets
  /\ sockets' = Append(sockets, "connecting")
  /\ socket' = Len(sockets) + 1
  /\ heartbeats' = heartbeats + 1

\* the DOMContentLoaded handler of main.js
DOMContentLoaded ==
  /\ ~started
  /\ started' = TRUE
  /\ tryWebSocket(pollingInterval, intervals)
  /\ UNCHANGED <<wsLoaded, socketVars, restOfPage>>

\* 'connect' of a testSocket
ProbeConnect ==
  /\ probes > 0
  /\ probes' = probes - 1
  /\ DATA_MODE' = websocket
  /\ initWebSocket
  /\ UNCHANGED <<pollingInterval, started, wsLoaded, asyncVars, isConnected,
                 statusEl, restOfPage>>

\* 'connect_error' of a testSocket
ProbeConnectError ==
  /\ probes > 0
  /\ probes' = probes - 1
  /\ fallbackToPolling(pollingInterval, intervals)
  /\ UNCHANGED <<started, wsLoaded, socketVars, restOfPage>>

\* switchToPolling when it does not return at once; socket.disconnect()
\* closes the socket for good and runs its 'disconnect' handler
SwitchToPolling ==
  /\ started
  /\ DATA_MODE # polling
  /\ IF socket # 0 /\ sockets[socket] = "connected"
       THEN /\ sockets' = [sockets EXCEPT ![socket] = "closed"]
            /\ isConnected' = FALSE
       ELSE UNCHANGED <<sockets, isConnected>>
  /\ fallbackToPolling(pollingInterval, intervals)
  /\ UNCHANGED <<probes, started, wsLoaded, socket, heartbeats, restOfPage>>

\* switchToWebSocket when it does not return at once
SwitchToWebSocket ==
  /\ started
  /\ DATA_MODE # websocket
  /\ tryWebSocket(FALSE, IF pollingInterval THEN intervals - 1 ELSE intervals)
  /\ UNCHANGED <<started, wsLoaded, socketVars, restOfPage>>

\* 'connect' of a socket of initWebSocket (websocket-client.js)
SocketConnect ==
  \E i \in 1..Len(sockets) :
    /\ sockets[i] = "connecting"
    /\ sockets' = [sockets EXCEPT ![i] = "connected"]
    /\ isConnected' = TRUE
    /\ statusEl' = "live"
    /\ UNCHANGED <<socket, heartbeats, asyncVars, modeVars, restOfPage>>

\* 'disconnect' of a socket of initWebSocket when the connection is lost;
\* the socket reconnects
SocketDisconnect ==
  \E i \in 1..Len(sockets) :
    /\ sockets[i] = "connected"
    /\ sockets' = [sockets EXCEPT ![i] = "connecting"]
    /\ isConnected' = FALSE
    /\ statusEl' = "offline"
    /\ UNCHANGED <<socket, heartbeats, asyncVars, modeVars, restOfPage>>

\* a tick of the timer set by fallbackToPolling
PollingTick ==
  /\ intervals > 0
  /\ Len(loads) < MaxPollLoads
  /\ loadDataStarts
  /\ UNCHANGED <<intervals, modeVars, socketVars, statusEl, restOfPage>>

\* a loadData call started by the mode controller runs to its end
PollingLoadSettled ==
  \E i \in 1..Len(loads) :
    /\ loadDataContinues(loads[i])
    /\ loads' = RemoveAt(loads, i)
    /\ UNCHANGED <<newestLoad, intervals, modeVars, socketVars, vipVars,
                   configVars, cardVars, hlFile, osFile, pollVars>>

\* the page when main.js and, or not, websocket-client.js have been loaded
InitMode ==
  /\ CURRENT_TIER = 0
  /\ REFERRAL_DISCOUNT = DefaultReferralDiscount
  /\ positionSize = N(1000)
  /\ maxFundingHours = N(50)
  /\ hlContract = hlInstrument(BTC, main)
  /\ osContract = osInstrument(BTC, crypto)
  /\ hlFee = Undefined
  /\ osFee = Undefined
  /\ arb = NoResult
  /\ directionText = NoDirection
  /\ GLOBAL_HL_DATA = <<>>
  /\ GLOBAL_OS_DATA = <<>>
  /\ GLOBAL_COMMON_PAIRS = <<>>
  /\ hlList = <<>>
  /\ osList = <<>>
  /\ commonList = <<>>
  /\ hlFile = [contracts |-> <<hlInstrument(BTC, main)>>]
  /\ osFile = [contracts |-> <<osInstrument(BTC, crypto)>>]
  /\ loadDataResult = "none"
  /\ isPolling = FALSE
  /\ passes = <<>>
  /\ GLOBAL_COMMON_PAIRS_DATA = Null
  /\ statusEl = ""
  /\ pollTimer = FALSE
  /\ loads = <<>>
  /\ newestLoad = Null
  /\ intervals = 0
  /\ DATA_MODE = websocket
  /\ pollingInterval = FALSE
  /\ probes = 0
  /\ wsLoaded \in BOOLEAN
  /\ started = FALSE
  /\ sockets = <<>>
  /\ socket = 0
  /\ isConnected = FALSE
  /\ heartbeats = 0
  /\ tierSelect = "0"
  /\ emitted = <<>>

NextMode ==
  \/ DOMContentLoaded
  \/ ProbeConnect
  \/ ProbeConnectError
  \/ SwitchToPolling
  \/ SwitchToWebSocket
  \/ SocketConnect
  \/ SocketDisconnect
  \/ PollingTick
  \/ PollingLoadSettled

SpecMode == InitMode /\ [][NextMode]_vars

-----------------------------------------------------------------------------
(* The tier sent to the backend: websocket-client.js of unnamed/part_003 *)

\* at most this many 'set_vip_tier' messages are sent
MaxEmits == 3

\* the values of the options of tierSelect
TierValues == <<"0", "1", "2", "3", "4", "5", "6">>

\* parseInt of the value of an option
parseInt(value) == (CHOOSE i \in 1..Len(TierValues) : TierValues[i] = value) - 1

\* sendVipTier(tier) when isConnected is connected
sendVipTier(tier, connected) ==
  IF socket # 0 /\ connected
    THEN /\ Len(emitted) < MaxEmits
         /\ emitted' = Append(emitted, tier)
    ELSE UNCHANGED emitted

\* what the socket client of part_003 leaves alone
restOfVipPage ==
  <<configVars, cardVars, dataVars, domVars, loadVars, isPolling, passes,
    GLOBAL_COMMON_PAIRS_DATA, pollTimer, asyncVars, modeVars, socket, heartbeats>>

\* the 'connect' handler without the tier
VipSocketConnect_noSend ==
  /\ socket # 0
  /\ sockets[socket] = "connecting"
  /\ sockets' = [sockets EXCEPT ![socket] = "connected"]
  /\ isConnected' = TRUE
  /\ statusEl' = "live"
  /\ UNCHANGED <<tierSelect, emitted, restOfVipPage>>

\* 'connect' of the socket: the handler sends the selected tier
VipSocketConnect ==
  /\ socket # 0
  /\ sockets[socket] = "connecting"
  /\ sockets' = [sockets EXCEPT ![socket] = "connected"]
  /\ isConnected' = TRUE
  /\ statusEl' = "live"
  /\ sendVipTier(parseInt(tierSelect), TRUE)
  /\ UNCHANGED <<tierSelect, restOfVipPage>>

\* 'disconnect' of the socket when the connection is lost
VipSocketDisconnect ==
  /\ socket # 0
  /\ sockets[socket] = "connected"
  /\ sockets' = [sockets EXCEPT ![socket] = "connecting"]
  /\ isConnected' = FALSE
  /\ statusEl' = "offline"
  /\ UNCHANGED <<tierSelect, emitted, restOfVipPage>>

\* the user selects another option of tierSelect: updateTier
UpdateTierVip ==
  \E value \in {TierValues[i] : i \in 1..Len(TierValues)} :
    /\ value # tierSelect
    /\ tierSelect' = value
    /\ sendVipTier(parseInt(value), isConnected)
    /\ UNCHANGED <<sockets, isConnected, statusEl, restOfVipPage>>

\* the page when initWebSocket has run
InitVip ==
  /\ CURRENT_TIER = 0
  /\ REFERRAL_DISCOUNT = DefaultReferralDiscount
  /\ positionSize = N(1000)
  /\ maxFundingHours = N(50)
  /\ hlContract = hlInstrument(BTC, main)
  /\ osContract = osInstrument(BTC, crypto)
  /\ hlFee = Undefined
  /\ osFee = Undefined
  /\ arb = NoResult
  /\ directionText = NoDirection
  /\ GLOBAL_HL_DATA = <<>>
  /\ GLOBAL_OS_DATA = <<>>
  /\ GLOBAL_COMMON_PAIRS = <<>>
  /\ hlList = <<>>
  /\ osList = <<>>
  /\ commonList = <<>>
  /\ hlFile = EmptyFile
  /\ osFile = EmptyFile
  /\ loadDataResult = "none"
  /\ isPolling = FALSE
  /\ passes = <<>>
  /\ GLOBAL_COMMON_PAIRS_DATA = Null
  /\ statusEl = ""
  /\ pollTimer = FALSE
  /\ loads = <<>>
  /\ newestLoad = Null
  /\ intervals = 0
  /\ DATA_MODE = websocket
  /\ pollingInterval = FALSE
  /\ probes = 0
  /\ wsLoaded = TRUE
  /\ started = TRUE
  /\ sockets = <<"connecting">>
  /\ socket = 1
  /\ isConnected = FALSE
  /\ heartbeats = 1
  /\ tierSelect \in {TierValues[i] : i \in 1..Len(TierValues)}
  /\ emitted = <<>>

NextVip == VipSocketConnect \/ VipSocketDisconnect \/ UpdateTierVip

SpecVip == InitVip /\ [][NextVip]_vars

-----------------------------------------------------------------------------
(* The documented BTC books: README (unnamed/part_012) and ostium/DATA_SCHEMA.md *)

\* the BTC contract of the Hyperliquid data format
hlBTC ==
  [coin |-> BTC, dex |-> main,
   bid |-> R(956239, 10), mid |-> R(956365, 10), ask |-> N(95637),
   fundingRate |-> Undefined]

\* the BTC price of the Ostium data format, filed under group g
osBTC(g) ==
  [from |-> BTC, group |-> g,
   bid |-> R(9493915, 100), mid |-> R(9494338, 100), ask |-> R(9494761, 100),
   fundingRate |-> Undefined, rolloverRate |-> Undefined]

\* calculateArbitrage up to `const maker`.  The taker plan of these books
\* (total cost 1.964 times the reference price 95285.755, over 12500) has no
\* exact representation in the integers of the model checker, so the plan is
\* left undefined here.
CalculateMaker ==
  /\ arb = NoResult
  /\ hlFee' = getHLFeeRate(hlContract)
  /\ osFee' = getOSFeeRate(osContract)
  /\ arb' = [maker |-> makerOf(hlContract, osContract, hlFee', osFee',
                               OSTIUM_ORACLE_FEE),
             taker |-> Undefined]
  /\ directionText' = directionTextOf(hlContract, osContract)
  /\ UNCHANGED <<appVars, configVars, hlContract, osContract, pageVars>>

\* the documented books under any tier, discount and Ostium group
InitScenario ==
  /\ CURRENT_TIER \in TierOptions
  /\ REFERRAL_DISCOUNT \in {0, DefaultReferralDiscount, MaxDiscount}
  /\ positionSize = N(1000)
  /\ maxFundingHours \in {N(0), N(50)}
  /\ hlContract = hlBTC
  /\ osContract \in {osBTC(crypto), osBTC(forex)}
  /\ hlFee = Undefined
  /\ osFee = Undefined
  /\ arb = NoResult
  /\ directionText = NoDirection
  /\ NoPage

NextScenario == CalculateMaker

SpecScenario == InitScenario /\ [][NextScenario]_vars

-----------------------------------------------------------------------------
(* Ordered books *)

\* prices two apart, so that a spread can exceed the break-even spread of
\* either plan
WidePriceSet == {N(PriceBase + 2 * i) : i \in 0..(MaxTick + 1)}

\* books with 0 < bid <= mid <= ask
OrderedBooks ==
  {b \in [bid : WidePriceSet, mid : WidePriceSet, ask : WidePriceSet] :
     Le(b.bid, b.mid) /\ Le(b.mid, b.ask)}

\* a comparison card is about to be rendered for a pair with ordered books:
\* any tier of the select, discount and fee class of either venue
InitOrdered ==
  /\ CURRENT_TIER \in TierOptions
  /\ REFERRAL_DISCOUNT \in {0, DefaultReferralDiscount, MaxDiscount}
  /\ positionSize = N(1000)
  /\ maxFundingHours = N(50)
  /\ \E b \in OrderedBooks, coin \in {BTC, XYZ_GOLD},
        f \in {Undefined, [rateHourly |-> R(1, 1000)]} :
       hlContract = [coin |-> coin, dex |-> IF coin = BTC THEN main ELSE xyz,
                     bid |-> b.bid, mid |-> b.mid, ask |-> b.ask,
                     fundingRate |-> f]
  /\ \E b \in OrderedBooks, g \in {crypto, forex} :
       osContract = [from |-> BTC, group |-> g,
                     bid |-> b.bid, mid |-> b.mid, ask |-> b.ask,
                     fundingRate |-> Undefined, rolloverRate |-> Undefined]
  /\ hlFee = Undefined
  /\ osFee = Undefined
  /\ arb = NoResult
  /\ directionText = NoDirection
  /\ NoPage

SpecOrdered == InitOrdered /\ [][Next]_vars

-----------------------------------------------------------------------------
(* Properties of the arbitrage calculator *)

Done == arb # NoResult

Plans == {maker, taker}

Plan(orderType) == IF orderType = taker THEN arb.taker ELSE arb.maker

\* the one reference price of a plan, from the instruments: the average of
\* the two mids (maker), the average of the two fill prices (taker)
RefPrice(orderType) ==
  IF orderType = maker
    THEN Div(Add(hlContract.mid, osContract.mid), N(2))
    ELSE IF Gt(hlContract.mid, osContract.mid)
      THEN Div(Add(hlContract.bid, osContract.ask), N(2))
      ELSE Div(Add(hlContract.ask, osContract.bid), N(2))

\* C1: with position size > 0 and reference price > 0, in both plans
\* breakEvenSpreadUSD * positionSize / referencePrice equals totalCost, and
\* the same reference price converts currentSpreadUSD into the spread profit.
C1_BreakEvenRoundTrip ==
  Done =>
    \A o \in Plans :
      (Gt(positionSize, N(0)) /\ Gt(RefPrice(o), N(0))) =>
        /\ Div(Mul(Plan(o).breakEvenSpreadUSD, positionSize), RefPrice(o))
             = Plan(o).totalCost
        /\ Plan(o).locals.spreadProfit
             = Div(Mul(Plan(o).currentSpreadUSD, positionSize), RefPrice(o))

C1_Witness ==
  /\ Done
  /\ Gt(positionSize, N(0))
  /\ Gt(RefPrice(maker), N(0))
  /\ Gt(RefPrice(taker), N(0))
  /\ RefPrice(maker) # RefPrice(taker)
  /\ RefPrice(maker) # osContract.mid
  /\ Gt(arb.taker.currentSpreadUSD, N(0))

\* the Ostium rate of a plan, from the resolved fee
OsRate(orderType) ==
  IF IsFeeObject(osFee)
    THEN (IF orderType = maker THEN osFee.m ELSE osFee.t)
    ELSE osFee

\* C2: total cost is S*(rateHL/100)*2 + S*(rateOS/100) + oracleFee, with both
\* maker rates in the maker plan and both taker rates in the taker plan; a
\* scalar Ostium fee is used in both plans.
C2_TotalCost ==
  Done =>
    /\ arb.maker.totalCost =
         Add(Mul(Mul(positionSize, Div(hlFee.m, N(100))), N(2)),
             Add(Mul(positionSize, Div(OsRate(maker), N(100))), OSTIUM_ORACLE_FEE))
    /\ arb.taker.totalCost =
         Add(Mul(Mul(positionSize, Div(hlFee.t, N(100))), N(2)),
             Add(Mul(positionSize, Div(OsRate(taker), N(100))), OSTIUM_ORACLE_FEE))

C2_Witness ==
  /\ Done
  /\ IsFeeObject(osFee)
  /\ positionSize = N(1000)
  /\ arb.maker.totalCost = R(688, 1000)
  /\ arb.taker.totalCost = R(1964, 1000)

\* C3: the taker plan shorts Hyperliquid at its bid and longs Ostium at its
\* ask iff Hyperliquid's mid exceeds Ostium's mid; otherwise (equal mids
\* included) it longs Hyperliquid at its ask and shorts Ostium at its bid; the
\* spread is max(0, short fill - long fill).
C3_TakerDirection ==
  Done =>
    IF Gt(hlContract.mid, osContract.mid)
      THEN /\ arb.taker.locals.hlPrice = hlContract.bid
           /\ arb.taker.locals.osPrice = osContract.ask
           /\ arb.taker.currentSpreadUSD
                = MathMax(N(0), Sub(hlContract.bid, osContract.ask))
      ELSE /\ arb.taker.locals.hlPrice = hlContract.ask
           /\ arb.taker.locals.osPrice = osContract.bid
           /\ arb.taker.currentSpreadUSD
                = MathMax(N(0), Sub(osContract.bid, hlContract.ask))

C3_Witness ==
  /\ Done
  /\ hlContract.mid = osContract.mid
  /\ Gt(hlContract.mid, N(0))
  /\ hlContract.bid # hlContract.ask
  /\ osContract.bid # osContract.ask
  /\ Gt(arb.taker.currentSpreadUSD, N(0))

\* C4: the taker spread is never negative, whatever the books.
C4_TakerSpreadNonNegative ==
  Done => Ge(arb.taker.currentSpreadUSD, N(0))

\* a crossed pair of fill prices: the raw difference is negative
C4_Witness ==
  /\ Done
  /\ Gt(hlContract.mid, osContract.mid)
  /\ Lt(hlContract.bid, osContract.ask)
  /\ arb.taker.currentSpreadUSD = N(0)

\* fundingProfitPerHour of a plan, from the returned funding differential
FundingPerHour(orderType) ==
  Mul(positionSize, Div(Plan(orderType).fundingDiff, N(100)))

\* the plan is computed on a positive position size and reference price
Regular(orderType) ==
  Gt(positionSize, N(0)) /\ Gt(RefPrice(orderType), N(0))

\* C5 as stated: the reported fundingHours is totalCost / fundingProfitPerHour
\* whenever fundingProfitPerHour > 0, and the sentinel only otherwise.
C5_Original ==
  Done =>
    \A o \in Plans :
      Regular(o) =>
        IF Gt(FundingPerHour(o), N(0))
          THEN Plan(o).fundingHours = Div(Plan(o).totalCost, FundingPerHour(o))
          ELSE Plan(o).fundingHours \in {Null, Infinity}

\* C5 amended: the funding break-even time computed inside the calculator is
\* totalCost / fundingProfitPerHour when fundingProfitPerHour > 0 and Infinity
\* otherwise; the reported fundingHours is that time when it is > 0 and
\* <= maxFundingHours, and null in every other case.
C5_FundingHoursReported ==
  Done =>
    \A o \in Plans :
      LET h == IF Gt(FundingPerHour(o), N(0))
                 THEN Div(Plan(o).totalCost, FundingPerHour(o))
                 ELSE Infinity
      IN  /\ Plan(o).locals.fundingHours = h
          /\ Plan(o).fundingHours =
               IF Gt(h, N(0)) /\ Le(h, maxFundingHours) THEN h ELSE Null

\* funding pays in both plans, within the horizon for maker only
C5_Witness ==
  /\ Done
  /\ Gt(FundingPerHour(taker), N(0))
  /\ arb.maker.fundingHours = Div(arb.maker.totalCost, FundingPerHour(maker))
  /\ Gt(Div(arb.taker.totalCost, FundingPerHour(taker)), maxFundingHours)
  /\ arb.taker.fundingHours = Null

\* C6: with a zero funding differential, fundingValid is false and
\* fundingHours is the sentinel, and spreadCanProfit is exactly
\* currentSpreadUSD >= breakEvenSpreadUSD.
C6_ZeroFundingDiff ==
  Done =>
    \A o \in Plans :
      Plan(o).fundingDiff = N(0) =>
        /\ ~Plan(o).fundingValid
        /\ Plan(o).fundingHours = Null
        /\ Plan(o).spreadCanProfit
             <=> Ge(Plan(o).currentSpreadUSD, Plan(o).breakEvenSpreadUSD)

\* identical non-zero hourly funding, and the spread alone pays
C6_Witness ==
  /\ Done
  /\ hlContract.fundingRate # Undefined
  /\ Gt(hlContract.fundingRate.rateHourly, N(0))
  /\ arb.maker.fundingDiff = N(0)
  /\ arb.maker.spreadCanProfit
  /\ ~arb.maker.fundingValid

\* remainingCost of a plan, from the returned fields and the instruments
RemainingCost(orderType) ==
  Sub(Plan(orderType).totalCost,
      Div(Mul(Plan(orderType).currentSpreadUSD, positionSize), RefPrice(orderType)))

\* C7 as stated: the reported comboHours is 0 when remainingCost <= 0,
\* otherwise remainingCost / fundingProfitPerHour when fundingProfitPerHour > 0,
\* otherwise the sentinel.
C7_Original ==
  Done =>
    \A o \in Plans :
      Regular(o) =>
        IF Le(RemainingCost(o), N(0))
          THEN Plan(o).comboHours = N(0)
          ELSE IF Gt(FundingPerHour(o), N(0))
            THEN Plan(o).comboHours = Div(RemainingCost(o), FundingPerHour(o))
            ELSE Plan(o).comboHours \in {Null, Infinity}

\* C7 amended: the combined break-even time computed inside the calculator
\* is 0 when remainingCost <= 0, remainingCost / fundingProfitPerHour when
\* remainingCost > 0 and fundingProfitPerHour > 0, and Infinity otherwise; the
\* reported comboHours is that time when it is <= maxFundingHours, else null.
C7_ComboHoursReported ==
  Done =>
    \A o \in Plans :
      LET c == IF Le(RemainingCost(o), N(0)) THEN N(0)
               ELSE IF Gt(RemainingCost(o), N(0)) /\ Gt(FundingPerHour(o), N(0))
                 THEN Div(RemainingCost(o), FundingPerHour(o))
                 ELSE Infinity
      IN  /\ Plan(o).locals.comboHours = c
          /\ Plan(o).comboHours = IF Le(c, maxFundingHours) THEN c ELSE Null

\* the spread pays part of the taker cost and funding pays the rest in time,
\* while the maker plan is paid by the spread alone
C7_Witness ==
  /\ Done
  /\ Gt(arb.taker.locals.spreadProfit, N(0))
  /\ Gt(RemainingCost(taker), N(0))
  /\ arb.taker.comboHours = Div(RemainingCost(taker), FundingPerHour(taker))
  /\ Le(RemainingCost(maker), N(0))
  /\ arb.maker.comboHours = N(0)

\* C8: a rollover rate reported in place of a funding rate enters fundingDiff
\* with its sign flipped.
C8_RolloverSignFlipped ==
  (Done /\ osContract.fundingRate = Undefined /\ osContract.rolloverRate # Undefined) =>
      \A o \in Plans :
        Plan(o).fundingDiff =
          MathAbs(Sub(OrElse(OptGet(hlContract.fundingRate, "rateHourly"), N(0)),
                      Neg(osContract.rolloverRate.hourly)))

\* every number a plan computes
PlanNumbers(orderType) ==
  {Plan(orderType).totalCost, Plan(orderType).breakEvenSpreadUSD,
   Plan(orderType).currentSpreadUSD, Plan(orderType).fundingDiff,
   Plan(orderType).locals.avgPrice, Plan(orderType).locals.fundingPerHour,
   Plan(orderType).locals.fundingHours, Plan(orderType).locals.spreadProfit,
   Plan(orderType).locals.remainingCost, Plan(orderType).locals.comboHours}

\* C9: on a zero position size or a zero reference price no number of the
\* plan is NaN, both break-even times are the sentinel and no verdict is true.
C9_DegenerateInputsGuarded ==
  Done =>
    \A o \in Plans :
      (IsZero(positionSize) \/ IsZero(RefPrice(o))) =>
        /\ \A x \in PlanNumbers(o) : ~IsNaN(x)
        /\ Plan(o).fundingHours = Null
        /\ Plan(o).comboHours = Null
        /\ ~Plan(o).spreadCanProfit
        /\ ~Plan(o).fundingValid
        /\ ~Plan(o).comboValid
        /\ ~Plan(o).anyCanProfit

-----------------------------------------------------------------------------
(* Properties of the fee resolvers *)

HLFeeTables == {perps_base, hip3_growth, hip3_standard}

\* C10: the taker and the maker rate getHLFeeRate returns are the base rates
\* of one fee table at the current tier, each multiplied by
\* (1 - discount / 100).
C10_DiscountAfterTierLookup ==
  hlFee # Undefined =>
    \E table \in HLFeeTables :
      /\ hlFee.t = Mul(FEE_SCHEDULE(table)[CURRENT_TIER].t,
                       R(100 - REFERRAL_DISCOUNT, 100))
      /\ hlFee.m = Mul(FEE_SCHEDULE(table)[CURRENT_TIER].m,
                       R(100 - REFERRAL_DISCOUNT, 100))

\* hip3_growth at tier 3 (0.006 / 0.0008) under a 50% discount
C10_Witness ==
  /\ REFERRAL_DISCOUNT = 50
  /\ CURRENT_TIER = 3
  /\ hlFee = [t |-> R(3, 1000), m |-> R(4, 10000)]

-----------------------------------------------------------------------------
(* Properties of the fee resolvers and of the page *)

\* C11: a tier change to a higher tier, discount and instruments unchanged,
\* never raises the effective taker fee or the effective maker fee shown for
\* any Hyperliquid instrument, whatever fee table the instrument uses.
C11_FeeMonotoneInTier ==
  [][(/\ CURRENT_TIER' > CURRENT_TIER
      /\ GLOBAL_HL_DATA' = GLOBAL_HL_DATA
      /\ Len(hlList) = Len(GLOBAL_HL_DATA)) =>
       /\ Len(hlList') = Len(hlList)
       /\ \A i \in 1..Len(hlList) :
            /\ Le(hlList'[i].fee.t, hlList[i].fee.t)
            /\ Le(hlList'[i].fee.m, hlList[i].fee.m)]_vars

\* tier 6 after a tier change: perps_base 0.024 / 0 under the 4% discount
C11_Witness ==
  /\ CURRENT_TIER = MaxTier
  /\ REFERRAL_DISCOUNT = DefaultReferralDiscount
  /\ Len(hlList) = 2
  /\ hlList[1].coin = XYZ_GOLD
  /\ hlList[1].fee = [t |-> R(4608, 100000), m |-> N(0)]
  /\ hlList[2].coin = BTC
  /\ hlList[2].fee = [t |-> R(2304, 100000), m |-> N(0)]

\* the rate of a fee table at a tier under the current discount
TableFeeAt(table, tier) ==
  [t |-> Mul(FEE_SCHEDULE(table)[tier].t, R(100 - REFERRAL_DISCOUNT, 100)),
   m |-> Mul(FEE_SCHEDULE(table)[tier].m, R(100 - REFERRAL_DISCOUNT, 100))]

\* the rate of a fee table at the current tier under the current discount
TableFee(table) == TableFeeAt(table, CURRENT_TIER)

\* the Ostium symbols that have an asset-specific rate
HasOverride(from) ==
  \E i \in 1..Len(OSTIUM_TRADITIONAL) : OSTIUM_TRADITIONAL[i][1] = from

\* osContract.group in lower case, '' when absent
GroupOf == toLowerCase(StrOr(osContract.group, <<>>))

KnownGroups == {crypto, forex, indices, stocks, commodities}

\* the rate of a known group
GroupRate(group) ==
  CASE group = forex -> R(3, 100)
    [] group = indices -> R(5, 100)
    [] group = stocks -> R(5, 100)
    [] group = commodities -> R(5, 100)
    [] group = crypto -> [t |-> R(10, 100), m |-> R(3, 100)]

\* C12: the fee getOSFeeRate returns is the asset-specific rate of the symbol
\* when the symbol has one, whatever the group; else the rate of the group
\* when the group is a known one; else the default 0.06.
C12_OverrideThenGroupThenDefault ==
  osFee # Undefined =>
    IF HasOverride(osContract.from) THEN osFee = traditional(osContract.from)
    ELSE IF GroupOf \in KnownGroups THEN osFee = GroupRate(GroupOf)
    ELSE osFee = R(6, 100)

\* XAG classified as crypto is charged the XAG rate 0.15, not the crypto rates
C12_Witness ==
  /\ osContract.from = XAG
  /\ osContract.group = crypto
  /\ osFee = R(15, 100)

\* C13: on the xyz dex the standard table is used for the asset GOLD and for
\* no other asset, which uses the growth table; off the xyz dex perps_base is
\* used.  The asset of a coin is its name without the dex prefix.
C13_StandardOnlyForGold ==
  hlFee # Undefined =>
    hlFee = TableFee(IF StrOr(hlContract.dex, main) # xyz THEN perps_base
                     ELSE IF hlKeyOf(hlContract) = GOLD THEN hip3_standard
                     ELSE hip3_growth)

\* C14: neither fee resolver raises, for any classification and any tier of
\* the tier select: getHLFeeRate returns a pair of finite rates, getOSFeeRate
\* a finite rate or a pair of finite rates, and an Ostium instrument of an
\* unknown or absent group without asset-specific rate gets the default 0.06.
C14_FeeResolutionNeverRaises ==
  /\ hlFee # Undefined =>
       /\ hlFee # TypeError
       /\ IsFinite(hlFee.t) /\ IsFinite(hlFee.m)
  /\ osFee # Undefined =>
       /\ osFee # TypeError
       /\ IF IsFeeObject(osFee) THEN IsFinite(osFee.t) /\ IsFinite(osFee.m)
                                ELSE IsFinite(osFee)
       /\ (~HasOverride(osContract.from) /\ GroupOf \notin KnownGroups) =>
            osFee = R(6, 100)

\* both resolvers have returned at the highest tier, for an instrument of an
\* unknown dex and an instrument of an unknown group
C14_Witness ==
  /\ CURRENT_TIER = MaxTier
  /\ hlContract.dex = flx
  /\ hlFee = TableFee(perps_base)
  /\ osContract.from = EUR
  /\ osContract.group = other
  /\ osFee = R(6, 100)

-----------------------------------------------------------------------------
(* Properties of the matcher and of the ordering *)

Loaded == loadDataResult = "true"

\* the coin without the prefix that ends at its first ':', in upper case
CanonicalHL(h) ==
  LET coin == h.coin
      cut  == IF \E k \in 1..Len(coin) : coin[k] = ":"
                THEN CHOOSE k \in 1..Len(coin) :
                       coin[k] = ":" /\ \A m \in 1..(k - 1) : coin[m] # ":"
                ELSE 0
  IN  toUpperCase(SubSeq(coin, cut + 1, Len(coin)))

\* the alias of upper(o.from) when NAME_MAPPING has one, else upper(o.from)
CanonicalOS(o) ==
  LET name == toUpperCase(o.from)
  IN  IF \E i \in 1..Len(NAME_MAPPING) : NAME_MAPPING[i][1] = name
        THEN nameMapping(name)
        ELSE name

\* the pair (h, o) is in the stored matched pairs
Emitted(h, o) ==
  \E k \in 1..Len(GLOBAL_COMMON_PAIRS) :
    GLOBAL_COMMON_PAIRS[k].hl = h /\ GLOBAL_COMMON_PAIRS[k].os = o

\* the instruments of a list, as a set
Range(list) == {list[i] : i \in 1..Len(list)}

\* position of an element in a list of different elements
IndexIn(list, x) == CHOOSE i \in 1..Len(list) : list[i] = x

\* C15 as stated: after loadData a pair (h, o) is emitted iff h and o have
\* the same canonical key.
C15_Original ==
  Loaded =>
    \A h \in Range(hlFile.contracts), o \in Range(osFile.contracts) :
      Emitted(h, o) <=> CanonicalHL(h) = CanonicalOS(o)

\* C15: after loadData a pair (h, o) is emitted iff h and o have the same
\* canonical key and no later Hyperliquid instrument of the file has that
\* key; every emitted pair is made of an instrument of each file, so an
\* instrument of one venue only is in no pair.
C15_PairIffLastOfKey ==
  Loaded =>
    /\ \A h \in Range(hlFile.contracts), o \in Range(osFile.contracts) :
         Emitted(h, o) <=>
           /\ CanonicalHL(h) = CanonicalOS(o)
           /\ \A j \in (IndexIn(hlFile.contracts, h) + 1)..Len(hlFile.contracts) :
                CanonicalHL(hlFile.contracts[j]) # CanonicalHL(h)
    /\ \A k \in 1..Len(GLOBAL_COMMON_PAIRS) :
         /\ GLOBAL_COMMON_PAIRS[k].hl \in Range(hlFile.contracts)
         /\ GLOBAL_COMMON_PAIRS[k].os \in Range(osFile.contracts)
    /\ Len(GLOBAL_COMMON_PAIRS) <= Len(osFile.contracts)

\* XAU is paired with the later of two coins of key GOLD, EUR with nothing
C15_Witness ==
  /\ Loaded
  /\ hlFile.contracts = <<hlInstrument(XYZ_GOLD, xyz), hlInstrument(BTC, main),
                          hlInstrument(GOLD, main)>>
  /\ osFile.contracts = <<osInstrument(EUR, forex), osInstrument(XAU, commodities)>>
  /\ Len(GLOBAL_COMMON_PAIRS) = 1
  /\ GLOBAL_COMMON_PAIRS[1].hl = hlInstrument(GOLD, main)
  /\ GLOBAL_COMMON_PAIRS[1].os = osInstrument(XAU, commodities)

\* rank of a name: the lowest position of a PRIORITY_ASSETS entry the name
\* in upper case contains, one past the last position when it contains none
PriorityRank(name) ==
  LET up   == toUpperCase(name)
      hits == {i \in 1..Len(PRIORITY_ASSETS) : Includes(up, PRIORITY_ASSETS[i])}
  IN  IF hits = {} THEN Len(PRIORITY_ASSETS) + 1
      ELSE CHOOSE i \in hits : \A j \in hits : i <= j

\* list holds the elements of input, by ascending rank of names[i], elements
\* of equal rank in their order in input
OrderedByPriority(list, names, input) ==
  /\ Len(list) = Len(input)
  /\ Range(list) = Range(input)
  /\ \A i, j \in 1..Len(list) :
       i < j =>
         /\ PriorityRank(names[i]) <= PriorityRank(names[j])
         /\ PriorityRank(names[i]) = PriorityRank(names[j]) =>
              IndexIn(input, list[i]) < IndexIn(input, list[j])

\* C16: after loadData each venue's list and the matched pairs hold the
\* priority assets first, by lowest matching PRIORITY_ASSETS index, and keep
\* the insertion order among assets of the same index and among the assets
\* without priority.  A pair is ranked by the Ostium name of the pair.
C16_SortedByPriority ==
  Loaded =>
    /\ OrderedByPriority(GLOBAL_HL_DATA,
                         [i \in 1..Len(GLOBAL_HL_DATA) |-> GLOBAL_HL_DATA[i].coin],
                         hlFile.contracts)
    /\ OrderedByPriority(GLOBAL_OS_DATA,
                         [i \in 1..Len(GLOBAL_OS_DATA) |-> GLOBAL_OS_DATA[i].from],
                         osFile.contracts)
    /\ OrderedByPriority(GLOBAL_COMMON_PAIRS,
                         [i \in 1..Len(GLOBAL_COMMON_PAIRS) |->
                            GLOBAL_COMMON_PAIRS[i].os.from],
                         matchPairs(hlFile.contracts, osFile.contracts))

\* SILVER and GOLD swap, the two coins of GOLD and the two coins without
\* priority keep their order; XAGXAU ranks as XAU, before XAG
C16_Witness ==
  /\ Loaded
  /\ hlFile.contracts = <<hlInstrument(BTC, main), hlInstrument(XYZ_SILVER, xyz),
                          hlInstrument(XYZ_GOLD, xyz)>>
  /\ GLOBAL_HL_DATA = <<hlInstrument(XYZ_GOLD, xyz), hlInstrument(XYZ_SILVER, xyz),
                        hlInstrument(BTC, main)>>
  /\ osFile.contracts = <<osInstrument(XAG, commodities), osInstrument(XAGXAU, commodities)>>
  /\ GLOBAL_OS_DATA = <<osInstrument(XAGXAU, commodities), osInstrument(XAG, commodities)>>

\* C17: in every state the WebSocket client is in after it has handled
\* 'initial_data' and 'data_update' messages, the stored matched pairs are
\* the pairs of the stored Hyperliquid list and the stored Ostium list.
C17_PairsMatchSnapshots ==
  Range(GLOBAL_COMMON_PAIRS) = Range(matchPairs(GLOBAL_HL_DATA, GLOBAL_OS_DATA))

\* C18: at most one fetchAllData pass is in progress, and isPolling is TRUE
\* exactly while one is: it is FALSE whenever no pass is suspended at an
\* await, so also after every completed and every failed pass.
C18_NoOverlappingPass ==
  /\ Len(passes) <= 1
  /\ isPolling <=> Len(passes) = 1

\* a pass has failed, a later tick has started the next pass, and it is the
\* only one in progress
C18_Witness ==
  /\ statusEl = "offline"
  /\ isPolling
  /\ passes = <<awaitJson>>

\* C19: a tier change changes CURRENT_TIER only: the discount, the stored
\* lists and the stored pairs stay as they are, and in the same step the
\* Hyperliquid cards and the comparison cards are those of the stored lists
\* and pairs computed with the new tier.
C19_TierChangeRecomputes ==
  [][CURRENT_TIER' # CURRENT_TIER =>
       /\ UNCHANGED <<REFERRAL_DISCOUNT, positionSize, maxFundingHours>>
       /\ UNCHANGED <<GLOBAL_HL_DATA, GLOBAL_OS_DATA, GLOBAL_COMMON_PAIRS>>
       /\ UNCHANGED <<hlFile, osFile, loadDataResult, osList>>
       /\ Len(hlList') = Len(GLOBAL_HL_DATA)
       /\ Len(commonList') = Len(GLOBAL_COMMON_PAIRS)
       /\ \A t \in TierOptions :
            t = CURRENT_TIER' =>
              /\ \A i \in 1..Len(GLOBAL_HL_DATA) :
                   hlList'[i].fee =
                     TableFeeAt(hlFeeTable(GLOBAL_HL_DATA[i]), t)
              /\ \A i \in 1..Len(GLOBAL_COMMON_PAIRS) :
                   LET p   == GLOBAL_COMMON_PAIRS[i]
                       fee == TableFeeAt(hlFeeTable(p.hl), t)
                   IN  /\ commonList'[i].hlFee = fee
                       /\ commonList'[i].arb =
                            calculateArbitrage(p.hl, p.os, fee, getOSFeeRate(p.os),
                                               OSTIUM_ORACLE_FEE)]_vars

\* after a change to tier 3 the card of the pair GOLD / XAU carries the
\* hip3_standard rate of tier 3 and the taker cost computed from it
C19_Witness ==
  /\ CURRENT_TIER = 3
  /\ REFERRAL_DISCOUNT = DefaultReferralDiscount
  /\ Loaded
  /\ Len(GLOBAL_COMMON_PAIRS) = 1
  /\ GLOBAL_COMMON_PAIRS[1].hl = hlInstrument(XYZ_GOLD, xyz)
  /\ GLOBAL_COMMON_PAIRS[1].os = osInstrument(XAU, commodities)
  /\ commonList[1].hlFee = [t |-> R(576, 10000), m |-> R(768, 100000)]
  /\ commonList[1].arb.taker.locals.hlCost = R(1152, 1000)

\* C20: the venue the direction label names as short leg is the venue whose
\* bid the taker plan sells at, and the venue it names as long leg is the
\* venue whose ask the taker plan buys at; the short leg is Hyperliquid
\* exactly when its mid is the higher one, for equal mids it is Ostium.
C20_LabelMatchesTakerLegs ==
  Done =>
    /\ directionText.hlDir = short =>
         /\ arb.taker.locals.hlPrice = hlContract.bid
         /\ arb.taker.locals.osPrice = osContract.ask
    /\ directionText.osDir = short =>
         /\ arb.taker.locals.hlPrice = hlContract.ask
         /\ arb.taker.locals.osPrice = osContract.bid
    /\ directionText.hlDir \in {short, long}
    /\ directionText.osDir \in {short, long}
    /\ directionText.hlDir = long <=> directionText.osDir = short
    /\ directionText.osDir = long <=> directionText.hlDir = short
    /\ directionText.hlDir = short <=> Gt(hlContract.mid, osContract.mid)

\* equal mids on crossed quotes: Ostium is labelled short and its bid is the
\* taker's sell price
C20_Witness ==
  /\ Done
  /\ hlContract.mid = osContract.mid
  /\ hlContract.bid # hlContract.ask
  /\ osContract.bid # osContract.ask
  /\ directionText = [hlDir |-> long, osDir |-> short]
  /\ arb.taker.locals.osPrice = osContract.bid
  /\ arb.taker.locals.hlPrice = hlContract.ask

\* C21: for the documented BTC books (Hyperliquid mid 95636.50, Ostium mid
\* 94943.38, crypto) at tier 0 with 4% discount and position size 1000, the
\* maker plan has Hyperliquid cost 0.288, Ostium cost 0.40, total cost 0.688,
\* break-even spread 0.688 * 95289.94 / 1000, current spread 693.12 and
\* spreadCanProfit true.
C21_MakerScenario ==
  (/\ Done
   /\ CURRENT_TIER = 0
   /\ REFERRAL_DISCOUNT = 4
   /\ osContract.group = crypto) =>
    /\ hlFee.m = R(144, 10000)
    /\ osFee.m = R(3, 100)
    /\ arb.maker.locals.hlCost = R(288, 1000)
    /\ arb.maker.locals.osCost = R(40, 100)
    /\ arb.maker.totalCost = R(688, 1000)
    /\ arb.maker.locals.avgPrice = R(9528994, 100)
    /\ arb.maker.breakEvenSpreadUSD = R(204873371, 3125000)
    /\ arb.maker.currentSpreadUSD = R(69312, 100)
    /\ arb.maker.spreadCanProfit = TRUE

C21_Witness ==
  /\ Done
  /\ CURRENT_TIER = 0
  /\ REFERRAL_DISCOUNT = 4
  /\ positionSize = N(1000)
  /\ hlContract.mid = R(9563650, 100)
  /\ osContract.mid = R(9494338, 100)
  /\ osContract.group = crypto
  /\ arb.maker.totalCost = R(688, 1000)
  /\ arb.maker.spreadCanProfit

\* position size > 0 and the six prices of the two books > 0
PositiveInputs ==
  /\ Gt(positionSize, N(0))
  /\ \A c \in {hlContract, osContract} :
       Gt(c.bid, N(0)) /\ Gt(c.mid, N(0)) /\ Gt(c.ask, N(0))

\* C22: with position size > 0, positive prices and maxFundingHours >= 0,
\* in both plans anyCanProfit is true iff comboValid is true; spreadCanProfit
\* implies that comboHours is 0 and fundingValid implies comboValid.
C22_VerdictIsComboVerdict ==
  (Done /\ PositiveInputs /\ Ge(maxFundingHours, N(0))) =>
    \A orderType \in Plans :
      /\ Plan(orderType).anyCanProfit <=> Plan(orderType).comboValid
      /\ Plan(orderType).spreadCanProfit =>
           /\ Plan(orderType).locals.comboHours = N(0)
           /\ Plan(orderType).comboHours = N(0)
      /\ Plan(orderType).fundingValid => Plan(orderType).comboValid

\* funding alone pays within the limit, the spread alone does not, and the
\* combined time is positive and within the limit
C22_Witness ==
  /\ Done
  /\ PositiveInputs
  /\ arb.maker.fundingValid
  /\ ~arb.maker.spreadCanProfit
  /\ arb.maker.comboValid
  /\ Gt(arb.maker.comboHours, N(0))
  /\ arb.maker.anyCanProfit
  /\ ~arb.taker.anyCanProfit

\* 0 < bid <= mid <= ask on both venues
BooksOrdered ==
  \A c \in {hlContract, osContract} :
    Gt(c.bid, N(0)) /\ Le(c.bid, c.mid) /\ Le(c.mid, c.ask)

Distinct(list) == \A i, j \in 1..Len(list) : list[i] = list[j] => i = j

\* C24: in the matched pairs of any two instrument lists (no instrument
\* listed twice) each Hyperliquid instrument and each Ostium instrument is in
\* at most one pair.
C24_PairingOneToOne ==
  (Loaded /\ Distinct(hlFile.contracts) /\ Distinct(osFile.contracts)) =>
    \A i, j \in 1..Len(GLOBAL_COMMON_PAIRS) :
      (\/ GLOBAL_COMMON_PAIRS[i].hl = GLOBAL_COMMON_PAIRS[j].hl
       \/ GLOBAL_COMMON_PAIRS[i].os = GLOBAL_COMMON_PAIRS[j].os) => i = j

-----------------------------------------------------------------------------
(* Properties of overlapping loadData calls *)

\* both responses of a loadData call parse and every record has its name
Succeeds(load) ==
  /\ load.hl.kind = "parsed"
  /\ load.os.kind = "parsed"
  /\ ~matchingThrows(contractsOf(load.os.data))

\* the pairs of two instrument lists, in display order
PairsOf(hlContracts, osContracts) ==
  LET commonPairs == matchPairs(hlContracts, osContracts)
  IN  IF Len(commonPairs) > 0 THEN sortCommonPairs(commonPairs) ELSE commonPairs

\* the snapshots and pairs are those of the responses of load
StoredFrom(load) ==
  /\ GLOBAL_HL_DATA = sortByPriority(contractsOf(load.hl.data), "coin")
  /\ GLOBAL_OS_DATA = sortByPriority(contractsOf(load.os.data), "from")
  /\ GLOBAL_COMMON_PAIRS = PairsOf(contractsOf(load.hl.data),
                                   contractsOf(load.os.data))

\* C25: when every loadData call has completed and the most recently started
\* one succeeded, the stored snapshots and pairs are those of the most
\* recently started call, whatever the order of the responses.
C25_NewestInvocationWins ==
  (loads = <<>> /\ Succeeds(newestLoad)) => StoredFrom(newestLoad)

\* a suspended loadData call runs to its end and returns false
ReturnsFalse ==
  /\ Len(loads') = Len(loads) - 1
  /\ loadDataResult' = "false"

\* C27: a loadData call that returns false, because a fetch, a parse or the
\* processing of a malformed record failed, leaves GLOBAL_HL_DATA,
\* GLOBAL_OS_DATA and GLOBAL_COMMON_PAIRS as they were.
C27_FailureLeavesDataUntouched ==
  [][ReturnsFalse => UNCHANGED dataVars]_vars

\* a loadData call returns false after a fetch or a parse failed
FetchOrParseFailed ==
  /\ ReturnsFalse
  /\ \E i \in 1..Len(loads) :
       /\ loads' = RemoveAt(loads, i)
       /\ loads[i].hl.kind # "parsed" \/ loads[i].os.kind # "parsed"

\* a failed fetch or parse leaves the three globals as they were
C27_FetchFailureLeavesDataUntouched ==
  [][FetchOrParseFailed => UNCHANGED dataVars]_vars

-----------------------------------------------------------------------------
(* Properties of the mode controller *)

\* C26: in every state of the mode controller DATA_MODE = 'websocket' implies
\* that pollingInterval is null and no polling timer is running.
C26_ModesExclusive ==
  DATA_MODE = websocket => (~pollingInterval /\ intervals = 0)

\* a testSocket ends with connect_error: no socket is created for it
ProbeFails ==
  /\ probes' = probes - 1
  /\ sockets' = sockets

\* the first tryWebSocket finds no initWebSocket
StartsNotLoaded ==
  /\ ~wsLoaded
  /\ ~started
  /\ started'

\* polling mode with exactly one polling timer, held by pollingInterval
PollingWithOneTimer ==
  /\ DATA_MODE = polling
  /\ pollingInterval
  /\ intervals = 1

\* C29: a step in which the probe fails or tryWebSocket finds the WebSocket
\* client missing ends in polling mode, has started exactly one loadData call
\* and leaves exactly one polling timer running, whatever timer ran before;
\* without the client the application is in that state from startup on.
C29_FailureDegradesToPolling ==
  /\ [][(ProbeFails \/ StartsNotLoaded) =>
          /\ PollingWithOneTimer'
          /\ Len(loads') = Len(loads) + 1
          /\ newestLoad' = loads'[Len(loads')]]_vars
  /\ []((~wsLoaded /\ started) => PollingWithOneTimer)

\* the startup probe has failed and the application polls: the loadData call
\* of fallbackToPolling has completed and the timer has started the next one
C29_Witness ==
  /\ wsLoaded
  /\ started
  /\ probes = 0
  /\ sockets = <<>>
  /\ Len(loads) = 1
  /\ loadDataResult = "true"
  /\ PollingWithOneTimer

\* the sockets of initWebSocket that are not closed
LiveSockets == {i \in 1..Len(sockets) : sockets[i] # "closed"}

\* C30: at most one socket created by initWebSocket is live and at most one
\* heartbeat timer is running.
C30_OneSocketOneHeartbeat ==
  /\ Cardinality(LiveSockets) <= 1
  /\ heartbeats <= 1

-----------------------------------------------------------------------------
(* Properties of the tier sent to the backend *)

\* the tier of the last 'set_vip_tier' is the selected tier
LastSentIsSelected ==
  /\ emitted # <<>>
  /\ emitted[Len(emitted)] = parseInt(tierSelect)

\* C28: a tier changed while the socket is disconnected is not sent at that
\* moment; the 'connect' event sends the selected tier; in every connected
\* state the last tier sent is the selected tier.
C28_TierNeverLost ==
  /\ [](isConnected => LastSentIsSelected)
  /\ [][(~isConnected /\ tierSelect' # tierSelect) => emitted' = emitted]_vars
  /\ [][(~isConnected /\ isConnected') =>
          /\ Len(emitted') = Len(emitted) + 1
          /\ LastSentIsSelected']_vars

\* the connection was lost after a tier had been sent and another tier has
\* been selected since: it has not been sent and the next 'connect' sends it
C28_Witness ==
  /\ ~isConnected
  /\ statusEl = "offline"
  /\ Len(emitted) = 1
  /\ emitted[1] # parseInt(tierSelect)
  /\ ENABLED VipSocketConnect

====
